---------------------------- MODULE Spec2Model ----------------------------
(***************************************************************************)
(* Photeditor: the edit history (core/History.js, HistoryManager) and the  *)
(* editor state machine that drives it (main.js, Photeditor).              *)
(*                                                                         *)
(* The specifications share the variables:                                 *)
(*   SpecHistory    a HistoryManager driven directly by push, undo, redo   *)
(*                  and clear with opaque entries;                         *)
(*   Spec           the Photeditor, whose handlers call the same           *)
(*                  HistoryManager operators;                              *)
(*   SpecSession    the Photeditor's handlers on one loaded image, and     *)
(*   SpecSessionFair  the same when every external call settles;           *)
(*   SpecPipeline   the pixel methods of ImageEditor on small canvases;    *)
(*   SpecRender     the renders of the display and export canvases;        *)
(*   SpecOverlays   the overlay handlers with their redraw and save;       *)
(*   SpecTransform  flip and crop on the pixels.                           *)
(***************************************************************************)
EXTENDS Integers, Sequences, FiniteSets, Bags, TLC

VARIABLES
    history,          \* Photeditor.history : HistoryManager {states, currentIndex, maxSize}
    originalImage,    \* Photeditor.originalImage (NoImage for null)
    currentImage,     \* Photeditor.currentImage, the working image (NoImage for null)
    adjustments,      \* Photeditor.adjustments
    currentFilter,    \* Photeditor.currentFilter
    overlays,         \* Photeditor.overlays
    adjustmentsHeldBy,\* ids of the history entries that hold the very object this.adjustments
    overlaysHeldBy,   \* ids of the history entries that hold the very array this.overlays
    saves,            \* number of saveToHistory calls so far (names the state objects)
    loads,            \* loadImage calls whose img.onload has not run yet: a bag of files
    restores,         \* restoreState calls whose img.onload has not run yet: a bag of entries
    removals,         \* removeBackground calls in flight: a bag of [pc, blob]
    isProcessing,     \* BackgroundRemover.isProcessing
    timers,           \* autoEnhance timeouts that have not fired yet
    lastOp,           \* observation: the handler that ran last (see Observe)
    arg,              \* observation: the entry handed to the last HistoryPush (null otherwise)
    result,           \* observation: what the last HistoryManager.undo/redo call returned
    prev,             \* observation: the HistoryManager as it was before the last handler
    pushLog,          \* observation: entries pushed since construction/clear, while no undo/redo ran
    linear,           \* observation: no undo/redo has run since construction/clear
    trip              \* observation: the editor before an undo, while undo, its restore,
                      \* redo and its restore run with nothing in between (null otherwise)

\* the state of the Photeditor besides its HistoryManager
liveVars == <<originalImage, currentImage, adjustments, currentFilter, overlays,
              adjustmentsHeldBy, overlaysHeldBy>>

asyncVars == <<loads, restores, removals, isProcessing, timers>>

editorVars == <<liveVars, saves, asyncVars>>

obsVars == <<lastOp, arg, result, prev, pushLog, linear, trip>>

vars == <<history, editorVars, obsVars>>

-----------------------------------------------------------------------------
(* Bounds of the model.                                                    *)

\* largest bound handed to the HistoryManager constructor
MaxMaxSize == 3
\* longest run of pushes that is logged
MaxPushes == 5

\* opaque entries pushed in SpecHistory
Entries == {"A", "B", "C", "D"}

-----------------------------------------------------------------------------
(* JavaScript values.                                                      *)

\* null / a value, as a sequence of length 0 / 1
null == <<>>
Some(v) == <<v>>

Min(a, b) == IF a < b THEN a ELSE b
Max(a, b) == IF a > b THEN a ELSE b

\* Array.prototype.slice(begin, end) for 0 <= begin, 0 <= end (end is clamped)
slice(s, begin, end) == SubSeq(s, begin + 1, Min(end, Len(s)))

\* s[i] with a zero-based index; undefined (read as null by the callers) out of range
at(s, i) == IF i >= 0 /\ i < Len(s) THEN Some(s[i + 1]) ELSE null

-----------------------------------------------------------------------------
(* HistoryManager (core/History.js).                                       *)

\* constructor(maxSize = 20)
HistoryManager(maxSize) ==
    [states |-> <<>>, currentIndex |-> -1, maxSize |-> maxSize]

\* push without the slice: the redo branch survives
push_keepRedo(h, state) ==
    LET appended == Append(h.states, state)
        idx      == h.currentIndex + 1
    IN  IF Len(appended) > h.maxSize
        THEN [h EXCEPT !.states = Tail(appended), !.currentIndex = idx - 1]
        ELSE [h EXCEPT !.states = appended, !.currentIndex = idx]

\* push with pop() in place of shift(): the newest entry is evicted
push_pop(h, state) ==
    LET sliced   == slice(h.states, 0, h.currentIndex + 1)
        appended == Append(sliced, state)
        idx      == h.currentIndex + 1
    IN  IF Len(appended) > h.maxSize
        THEN [h EXCEPT !.states = SubSeq(appended, 1, Len(appended) - 1),
                       !.currentIndex = idx - 1]
        ELSE [h EXCEPT !.states = appended, !.currentIndex = idx]

\* push without the size limit
push_noLimit(h, state) ==
    LET sliced   == slice(h.states, 0, h.currentIndex + 1)
    IN  [h EXCEPT !.states = Append(sliced, state), !.currentIndex = h.currentIndex + 1]

push(h, state) ==
    LET sliced   == slice(h.states, 0, h.currentIndex + 1)
        appended == Append(sliced, state)
        idx      == h.currentIndex + 1
    IN  IF Len(appended) > h.maxSize
        THEN [h EXCEPT !.states = Tail(appended), !.currentIndex = idx - 1]
        ELSE [h EXCEPT !.states = appended, !.currentIndex = idx]

\* canUndo with >= in place of >
canUndo_ge(h) == h.currentIndex >= 0

canUndo(h) == h.currentIndex > 0

\* canRedo without the - 1
canRedo_len(h) == h.currentIndex < Len(h.states)

canRedo(h) == h.currentIndex < Len(h.states) - 1

\* undo reading the entry before moving the cursor
undo_readFirst(h) ==
    IF ~canUndo(h)
    THEN [h |-> h, ret |-> null]
    ELSE [h |-> [h EXCEPT !.currentIndex = @ - 1], ret |-> at(h.states, h.currentIndex)]

\* redo jumping to the newest entry
redo_toEnd(h) ==
    IF ~canRedo(h)
    THEN [h |-> h, ret |-> null]
    ELSE LET h2 == [h EXCEPT !.currentIndex = Len(h.states) - 1]
         IN  [h |-> h2, ret |-> at(h2.states, h2.currentIndex)]

\* undo() and redo() give the manager after the call and the returned value
undo(h) ==
    IF ~canUndo(h)
    THEN [h |-> h, ret |-> null]
    ELSE LET h2 == [h EXCEPT !.currentIndex = @ - 1]
         IN  [h |-> h2, ret |-> at(h2.states, h2.currentIndex)]

redo(h) ==
    IF ~canRedo(h)
    THEN [h |-> h, ret |-> null]
    ELSE LET h2 == [h EXCEPT !.currentIndex = @ + 1]
         IN  [h |-> h2, ret |-> at(h2.states, h2.currentIndex)]

getCurrent(h) ==
    IF h.currentIndex < 0 THEN null ELSE at(h.states, h.currentIndex)

clear(h) == [h EXCEPT !.states = <<>>, !.currentIndex = -1]

-----------------------------------------------------------------------------
(* Photeditor (main.js): values.                                           *)

\* HistoryManager's default bound, used by the editor: new HistoryManager()
DefaultMaxSize == 20
\* saveToHistory calls in one run
MaxSaves == 2
\* asynchronous callbacks outstanding at once (image loads, restores,
\* background removals, autoEnhance timeouts)
MaxPending == 2

\* this.currentImage = null
NoImage == [bitmap |-> 0, width |-> 0, height |-> 0]

\* the files the user can hand to loadImage; bitmap names the decoded pixels.
\* Image sizes are multiples of 4, so width/2 and width/4 below are exact.
Files == {
    [type |-> "image/png",  bitmap |-> 1, width |-> 2000, height |-> 2000],
    [type |-> "image/jpeg", bitmap |-> 2, width |-> 8,    height |-> 8],
    [type |-> "text/plain", bitmap |-> 0, width |-> 0,    height |-> 0] }

\* file.type.match('image.*')
matchesImage(type) == type \in {"image/png", "image/jpeg"}

\* the pixels of a canvas made by the k-th committed action (rotate, flip,
\* crop, background removal): distinct from every file and from each other
NewBitmap(k) == Cardinality(Files) + k

\* imageEditor.imageToCanvas(img): a canvas of the image's size and pixels
imageToCanvas(img) == [bitmap |-> img.bitmap, width |-> img.width, height |-> img.height]

\* canvas.toDataURL('image/png'): the lossless encoding of the canvas
toDataURL(canvas) == [mime |-> "image/png", bitmap |-> canvas.bitmap,
                      width |-> canvas.width, height |-> canvas.height]

\* new Image() with src = a PNG data URL, once loaded
decode(dataURL) == [bitmap |-> dataURL.bitmap, width |-> dataURL.width,
                    height |-> dataURL.height]

\* imageEditor.rotate(canvas, +-90): the canvas extents are swapped
rotate(canvas, degrees, k) ==
    [bitmap |-> NewBitmap(k), width |-> canvas.height, height |-> canvas.width]

\* imageEditor.flip(canvas, direction): same extents
flip(canvas, direction, k) ==
    [bitmap |-> NewBitmap(k), width |-> canvas.width, height |-> canvas.height]

\* Math.round of the non-negative half-integer n/2
roundHalf(n) == (n + 1) \div 2

\* imageEditor.crop(canvas, x, y, width, height) with width = w2/2, height = h2/2
crop(canvas, w2, h2, k) ==
    [bitmap |-> NewBitmap(k), width |-> roundHalf(w2), height |-> roundHalf(h2)]

\* crop selections (twice the width and height in image pixels)
CropSizes == {<<7, 8>>}

zeroAdjustments ==
    [brightness |-> 0, contrast |-> 0, saturation |-> 0, exposure |-> 0,
     highlights |-> 0, shadows |-> 0, temperature |-> 0, sharpness |-> 0]

autoEnhanceAdjustments ==
    [brightness |-> 5, contrast |-> 10, saturation |-> 15, exposure |-> 5,
     highlights |-> -10, shadows |-> 10, temperature |-> 0, sharpness |-> 20]

\* the sliders moved and the values they are moved to
SliderNames == {"contrast"}
SliderValues == {10}

\* the filter buttons clicked
FilterChoices == {"sepia"}

textSettings ==
    [text |-> "", fontSize |-> 48, color |-> "#ffffff",
     bold |-> FALSE, italic |-> FALSE, outline |-> FALSE]

shapeSettings ==
    [type |-> "rectangle", strokeWidth |-> 8, strokeColor |-> "#ff4444",
     fill |-> FALSE, fillColor |-> "#ff444466"]

\* what the text input holds when the text modal is confirmed (characters)
TextInputs == { <<" ">>, <<" ", "H", "i", " ">> }

\* the shape buttons clicked
ShapeTypes == {"rectangle"}

\* String.prototype.trim on a sequence of characters
RECURSIVE trimStart(_)
trimStart(t) == IF t # <<>> /\ t[1] = " " THEN trimStart(Tail(t)) ELSE t

RECURSIVE trimEnd(_)
trimEnd(t) ==
    IF t # <<>> /\ t[Len(t)] = " " THEN trimEnd(SubSeq(t, 1, Len(t) - 1)) ELSE t

trim(t) == trimEnd(trimStart(t))

\* the overlay built by addTextOverlay
textOverlay(text, canvas) ==
    [type |-> "text", text |-> text,
     x |-> canvas.width \div 2, y |-> canvas.height \div 2,
     fontSize |-> textSettings.fontSize, color |-> textSettings.color,
     bold |-> textSettings.bold, italic |-> textSettings.italic,
     outline |-> textSettings.outline]

\* Math.max(strokeWidth, Math.round(strokeWidth * Math.max(w, h) / 1000))
scaledStrokeWidth(strokeWidth, canvas) ==
    Max(strokeWidth,
        (2 * strokeWidth * Max(canvas.width, canvas.height) + 1000) \div 2000)

\* the overlay built by addShapeOverlay
shapeOverlay(shapeType, canvas) ==
    [type |-> "shape", shapeType |-> shapeType,
     x |-> canvas.width \div 4, y |-> canvas.height \div 4,
     width |-> canvas.width \div 2, height |-> canvas.height \div 2,
     strokeWidth |-> scaledStrokeWidth(shapeSettings.strokeWidth, canvas),
     strokeColor |-> shapeSettings.strokeColor,
     fill |-> shapeSettings.fill, fillColor |-> shapeSettings.fillColor]

(* Object identity.  this.adjustments[name] = value, this.overlays.push and  *)
(* this.overlays.splice change an object in place, so every holder of that   *)
(* object sees the change.  adjustmentsHeldBy / overlaysHeldBy are the       *)
(* history entries that hold the live object.                                *)

\* the source object itself in place of a copy
spreadCopy_same(holders) == holders

\* { ...source }: of the entries holding `source`, those that hold the copy too
spreadCopy(holders) == {}

\* JSON.parse(JSON.stringify(source)): likewise
jsonCopy(holders) == {}

\* a state object without the overlays
snapshot_noOverlays(id, canvas, adj, filter, ovs) ==
    [id |-> id, imageData |-> toDataURL(canvas), adjustments |-> adj,
     filter |-> filter, overlays |-> <<>>]

\* the state object built by saveToHistory; id names the object
snapshot(id, canvas, adj, filter, ovs) ==
    [id |-> id, imageData |-> toDataURL(canvas), adjustments |-> adj,
     filter |-> filter, overlays |-> ovs]

\* the history after an in-place change of the live adjustments / overlays
writeAdjustments(h, holders, adj) ==
    [h EXCEPT !.states =
        [i \in 1..Len(h.states) |->
            IF h.states[i].id \in holders
            THEN [h.states[i] EXCEPT !.adjustments = adj] ELSE h.states[i]]]

writeOverlays(h, holders, ovs) ==
    [h EXCEPT !.states =
        [i \in 1..Len(h.states) |->
            IF h.states[i].id \in holders
            THEN [h.states[i] EXCEPT !.overlays = ovs] ELSE h.states[i]]]


\* the bag B with one copy of x added / removed
BagAdd(B, x) == B (+) SetToBag({x})
BagRemove(B, x) == B (-) SetToBag({x})

-----------------------------------------------------------------------------
(* Photeditor: constructor.                                                *)

InitEditor ==
    /\ originalImage = NoImage
    /\ currentImage = NoImage
    /\ adjustments = zeroAdjustments
    /\ currentFilter = "none"
    /\ overlays = <<>>
    /\ adjustmentsHeldBy = {}
    /\ overlaysHeldBy = {}
    /\ saves = 0
    /\ loads = EmptyBag
    /\ restores = EmptyBag
    /\ removals = EmptyBag
    /\ isProcessing = FALSE
    /\ timers = 0

Init ==
    /\ history = HistoryManager(DefaultMaxSize)
    /\ InitEditor
    /\ lastOp = "new"
    /\ arg = null
    /\ result = null
    /\ prev = history
    /\ pushLog = <<>>
    /\ linear = TRUE
    /\ trip = null

-----------------------------------------------------------------------------
(* Photeditor: handlers.  Each action is one handler run to completion.    *)

\* the callbacks that are outstanding
pending ==
    BagCardinality(loads) + BagCardinality(restores) + BagCardinality(removals) + timers

\* another callback may be registered
mayDefer == pending < MaxPending

\* the round trip after the handler op: an undo that returns an entry
\* while no callback is outstanding starts one, the restore's onload, a
\* redo that returns an entry and its restore's onload continue it, and
\* every other handler ends it.  steps counts the handlers run so far.
Trip(op, ret) ==
    IF op = "undo" /\ ret # null /\ pending = 0
    THEN Some([cursor |-> history.currentIndex, currentImage |-> currentImage,
               adjustments |-> adjustments, currentFilter |-> currentFilter,
               overlays |-> overlays, steps |-> 1])
    ELSE IF /\ trip # null
            /\ \/ op = "restoreState.onload" /\ trip[1].steps \in {1, 3}
               \/ op = "redo" /\ ret # null /\ trip[1].steps = 2
         THEN Some([trip[1] EXCEPT !.steps = @ + 1])
         ELSE null

\* what the observation variables record of a handler: op names a committed
\* action, "undo", "redo", the onload of a restore ("restoreState.onload"),
\* a failed background removal ("remove.busy", "remove.rejected"), and is
\* "other" for every other handler
Observe(op, ret) ==
    /\ lastOp' = op
    /\ result' = ret
    /\ prev' = history
    /\ trip' = Trip(op, ret)
    /\ UNCHANGED <<pushLog, linear>>

\* saveToHistory(), called with the live state the handler leaves behind.
\* h is the history the handler's in-place writes have left; adjHolders and
\* ovHolders are the holders of the live objects before the call.
saveToHistory(h, canvas, adj, adjHolders, filter, ovs, ovHolders) ==
    LET state == snapshot(saves + 1, canvas, adj, filter, ovs)
    IN  /\ history' = push(h, state)
        /\ arg' = null
        /\ saves' = saves + 1
        /\ adjustmentsHeldBy' = adjHolders \cup spreadCopy({state.id})
        /\ overlaysHeldBy' = ovHolders \cup jsonCopy({state.id})

\* loadImage(file) up to reader.readAsDataURL
LoadImage(file) ==
    /\ mayDefer
    /\ IF ~matchesImage(file.type)
       THEN /\ Observe("other", null)
            /\ UNCHANGED loads
       ELSE /\ Observe("other", null)
            /\ loads' = BagAdd(loads, file)
    /\ arg' = null
    /\ UNCHANGED <<history, liveVars, saves, restores, removals, isProcessing, timers>>

\* img.onload of loadImage
ImageLoaded(file) ==
    /\ BagIn(file, loads)
    /\ saves < MaxSaves
    /\ loads' = BagRemove(loads, file)
    /\ originalImage' = [bitmap |-> file.bitmap, width |-> file.width, height |-> file.height]
    /\ currentImage' = imageToCanvas(originalImage')
    /\ overlays' = <<>>
    /\ adjustments' = zeroAdjustments
    /\ currentFilter' = "none"
    /\ saveToHistory(history, currentImage', adjustments', {}, currentFilter', overlays', {})
    /\ Observe("loadImage.onload", null)
    /\ UNCHANGED <<restores, removals, isProcessing, timers>>

\* the 'input' listener of an adjustment slider
SliderInput(name, value) ==
    /\ adjustments' = [adjustments EXCEPT ![name] = value]
    /\ history' = writeAdjustments(history, adjustmentsHeldBy, adjustments')
    /\ Observe("other", null)
    /\ arg' = null
    /\ UNCHANGED <<originalImage, currentImage, currentFilter, overlays,
                   adjustmentsHeldBy, overlaysHeldBy, saves, asyncVars>>

\* the 'click' listener of a filter button
FilterClick(filter) ==
    /\ currentFilter' = filter
    /\ Observe("other", null)
    /\ arg' = null
    /\ UNCHANGED <<history, originalImage, currentImage, adjustments, overlays, adjustmentsHeldBy, overlaysHeldBy, saves, asyncVars>>

\* rotate(degrees)
Rotate(degrees) ==
    /\ currentImage # NoImage
    /\ saves < MaxSaves
    /\ currentImage' = rotate(currentImage, degrees, saves + 1)
    /\ saveToHistory(history, currentImage', adjustments, adjustmentsHeldBy,
                     currentFilter, overlays, overlaysHeldBy)
    /\ Observe("rotate", null)
    /\ UNCHANGED <<originalImage, adjustments, currentFilter, overlays,
                   asyncVars>>

\* flip(direction)
Flip(direction) ==
    /\ currentImage # NoImage
    /\ saves < MaxSaves
    /\ currentImage' = flip(currentImage, direction, saves + 1)
    /\ saveToHistory(history, currentImage', adjustments, adjustmentsHeldBy,
                     currentFilter, overlays, overlaysHeldBy)
    /\ Observe("flip", null)
    /\ UNCHANGED <<originalImage, adjustments, currentFilter, overlays,
                   asyncVars>>

\* applyCrop(), reached from the crop modal that showCropModal opens only
\* when there is an image; the selection lies within the image
ApplyCrop(size) ==
    /\ currentImage # NoImage
    /\ roundHalf(size[1]) <= currentImage.width
    /\ roundHalf(size[2]) <= currentImage.height
    /\ saves < MaxSaves
    /\ currentImage' = crop(currentImage, size[1], size[2], saves + 1)
    /\ saveToHistory(history, currentImage', adjustments, adjustmentsHeldBy,
                     currentFilter, overlays, overlaysHeldBy)
    /\ Observe("applyCrop", null)
    /\ UNCHANGED <<originalImage, adjustments, currentFilter, overlays,
                   asyncVars>>

\* addTextOverlay(), reached from the text modal that showTextModal opens
\* only when there is an image
AddTextOverlay(input) ==
    /\ currentImage # NoImage
    /\ LET text == trim(input)
       IN  IF text = <<>>
           THEN /\ Observe("other", null)
                /\ arg' = null
                /\ UNCHANGED <<history, overlays, adjustmentsHeldBy, overlaysHeldBy, saves>>
           ELSE /\ saves < MaxSaves
                /\ overlays' = Append(overlays, textOverlay(text, currentImage))
                /\ saveToHistory(writeOverlays(history, overlaysHeldBy, overlays'),
                                 currentImage, adjustments, adjustmentsHeldBy,
                                 currentFilter, overlays', overlaysHeldBy)
                /\ Observe("addTextOverlay", null)
    /\ UNCHANGED <<originalImage, currentImage, adjustments, currentFilter, asyncVars>>

\* addShapeOverlay(), reached from the shape modal that showShapeModal(type)
\* opens only when there is an image
AddShapeOverlay(shapeType) ==
    /\ currentImage # NoImage
    /\ saves < MaxSaves
    /\ overlays' = Append(overlays, shapeOverlay(shapeType, currentImage))
    /\ saveToHistory(writeOverlays(history, overlaysHeldBy, overlays'),
                     currentImage, adjustments, adjustmentsHeldBy,
                     currentFilter, overlays', overlaysHeldBy)
    /\ Observe("addShapeOverlay", null)
    /\ UNCHANGED <<originalImage, currentImage, adjustments, currentFilter, asyncVars>>

\* autoEnhance() up to setTimeout
AutoEnhance ==
    /\ currentImage # NoImage
    /\ mayDefer
    /\ timers' = timers + 1
    /\ Observe("other", null)
    /\ arg' = null
    /\ UNCHANGED <<history, liveVars, saves, loads, restores, removals, isProcessing>>

\* the timeout callback of autoEnhance
EnhanceTimeout ==
    /\ timers > 0
    /\ timers' = timers - 1
    /\ adjustments' = autoEnhanceAdjustments
    /\ adjustmentsHeldBy' = {}
    /\ Observe("other", null)
    /\ arg' = null
    /\ UNCHANGED <<history, originalImage, currentImage, currentFilter, overlays, overlaysHeldBy, saves, loads, restores, removals,
                   isProcessing>>

\* restoreState(state) up to img.src = state.imageData
restoreState(state) == restores' = BagAdd(restores, state)

\* undo()
EditorUndo ==
    LET r == undo(history)
    IN  /\ r.ret # null => mayDefer
        /\ history' = r.h
        /\ IF r.ret # null THEN restoreState(r.ret[1]) ELSE UNCHANGED restores
        /\ Observe("undo", r.ret)
        /\ arg' = null
        /\ UNCHANGED <<liveVars, saves, loads, removals, isProcessing, timers>>

\* redo()
EditorRedo ==
    LET r == redo(history)
    IN  /\ r.ret # null => mayDefer
        /\ history' = r.h
        /\ IF r.ret # null THEN restoreState(r.ret[1]) ELSE UNCHANGED restores
        /\ Observe("redo", r.ret)
        /\ arg' = null
        /\ UNCHANGED <<liveVars, saves, loads, removals, isProcessing, timers>>

\* img.onload of restoreState(state)
RestoreLoaded(state) ==
    /\ BagIn(state, restores)
    /\ restores' = BagRemove(restores, state)
    /\ currentImage' = imageToCanvas(decode(state.imageData))
    /\ adjustments' = state.adjustments
    /\ adjustmentsHeldBy' = spreadCopy({state.id})
    /\ currentFilter' = state.filter
    /\ overlays' = state.overlays
    /\ overlaysHeldBy' = jsonCopy({state.id})
    /\ Observe("restoreState.onload", null)
    /\ arg' = null
    /\ UNCHANGED <<history, originalImage, saves, loads, removals,
                   isProcessing, timers>>

\* resetImage()
ResetImage ==
    /\ originalImage # NoImage
    /\ saves < MaxSaves
    /\ currentImage' = imageToCanvas(originalImage)
    /\ overlays' = <<>>
    /\ adjustments' = zeroAdjustments
    /\ currentFilter' = "none"
    /\ saveToHistory(history, currentImage', adjustments', {}, currentFilter', overlays', {})
    /\ Observe("resetImage", null)
    /\ UNCHANGED <<originalImage, asyncVars>>

\* removeBackground() up to the first await: the canvas is handed to toBlob
RemoveBackground ==
    /\ currentImage # NoImage
    /\ mayDefer
    /\ removals' = BagAdd(removals, [pc |-> "toBlob", blob |-> currentImage])
    /\ Observe("other", null)
    /\ arg' = null
    /\ UNCHANGED <<history, liveVars, saves, loads, restores, isProcessing, timers>>

\* remove() with the busy check inside the try block, so that finally runs
RemoveCalled_busyClears(r) ==
    /\ BagIn(r, removals)
    /\ r.pc = "toBlob"
    /\ IF isProcessing
       THEN /\ removals' = BagRemove(removals, r)
            /\ isProcessing' = FALSE
            /\ Observe("remove.busy", null)
       ELSE /\ removals' = BagAdd(BagRemove(removals, r), [r EXCEPT !.pc = "external"])
            /\ isProcessing' = TRUE
            /\ Observe("other", null)
    /\ arg' = null
    /\ UNCHANGED <<history, liveVars, saves, loads, restores, timers>>

\* the blob is ready: bgRemover.remove(blob) runs up to its await, or throws
\* because a removal is in progress and removeBackground's catch block runs
RemoveCalled(r) ==
    /\ BagIn(r, removals)
    /\ r.pc = "toBlob"
    /\ IF isProcessing
       THEN /\ removals' = BagRemove(removals, r)
            /\ UNCHANGED isProcessing
            /\ Observe("remove.busy", null)
       ELSE /\ removals' = BagAdd(BagRemove(removals, r), [r EXCEPT !.pc = "external"])
            /\ isProcessing' = TRUE
            /\ Observe("other", null)
    /\ arg' = null
    /\ UNCHANGED <<history, liveVars, saves, loads, restores, timers>>

\* a remove() without the finally block: the flag stays set
RemoveResolved_keepsBusy(r) ==
    /\ BagIn(r, removals)
    /\ r.pc = "external"
    /\ removals' = BagAdd(BagRemove(removals, r), [r EXCEPT !.pc = "decode"])
    /\ UNCHANGED isProcessing
    /\ Observe("other", null)
    /\ arg' = null
    /\ UNCHANGED <<history, liveVars, saves, loads, restores, timers>>

\* the external call resolves: remove()'s finally block runs, and
\* removeBackground goes on to img.src = URL.createObjectURL(result)
RemoveResolved(r) ==
    /\ BagIn(r, removals)
    /\ r.pc = "external"
    /\ removals' = BagAdd(BagRemove(removals, r), [r EXCEPT !.pc = "decode"])
    /\ isProcessing' = FALSE
    /\ Observe("other", null)
    /\ arg' = null
    /\ UNCHANGED <<history, liveVars, saves, loads, restores, timers>>

\* a catch block that also resets the adjustments
RemoveRejected_resets(r) ==
    /\ BagIn(r, removals)
    /\ r.pc = "external"
    /\ removals' = BagRemove(removals, r)
    /\ isProcessing' = FALSE
    /\ adjustments' = zeroAdjustments
    /\ adjustmentsHeldBy' = {}
    /\ Observe("remove.rejected", null)
    /\ arg' = null
    /\ UNCHANGED <<history, originalImage, currentImage, currentFilter, overlays,
                   overlaysHeldBy, saves, loads, restores, timers>>

\* the external call rejects: remove()'s catch and finally blocks run, then
\* removeBackground's catch block
RemoveRejected(r) ==
    /\ BagIn(r, removals)
    /\ r.pc = "external"
    /\ removals' = BagRemove(removals, r)
    /\ isProcessing' = FALSE
    /\ Observe("remove.rejected", null)
    /\ arg' = null
    /\ UNCHANGED <<history, liveVars, saves, loads, restores, timers>>

\* an onload that shows the result without saving it
RemovedLoaded_noSave(r) ==
    /\ BagIn(r, removals)
    /\ r.pc = "decode"
    /\ saves < MaxSaves
    /\ removals' = BagRemove(removals, r)
    /\ currentImage' = [bitmap |-> NewBitmap(saves + 1), width |-> r.blob.width,
                        height |-> r.blob.height]
    /\ Observe("removeBackground.onload", null)
    /\ arg' = null
    /\ UNCHANGED <<history, originalImage, adjustments, currentFilter, overlays,
                   adjustmentsHeldBy, overlaysHeldBy, saves,
                   loads, restores, isProcessing, timers>>

\* img.onload of removeBackground: the result becomes the working image
RemovedLoaded(r) ==
    /\ BagIn(r, removals)
    /\ r.pc = "decode"
    /\ saves < MaxSaves
    /\ removals' = BagRemove(removals, r)
    /\ currentImage' = [bitmap |-> NewBitmap(saves + 1), width |-> r.blob.width,
                        height |-> r.blob.height]
    /\ saveToHistory(history, currentImage', adjustments, adjustmentsHeldBy,
                     currentFilter, overlays, overlaysHeldBy)
    /\ Observe("removeBackground.onload", null)
    /\ UNCHANGED <<originalImage, adjustments, currentFilter, overlays,
                   loads, restores, isProcessing, timers>>

Next ==
    \/ \E file \in Files : LoadImage(file)
    \/ \E file \in Files : ImageLoaded(file)
    \/ \E name \in SliderNames, value \in SliderValues : SliderInput(name, value)
    \/ \E filter \in FilterChoices : FilterClick(filter)
    \/ \E degrees \in {-90, 90} : Rotate(degrees)
    \/ \E direction \in {"horizontal", "vertical"} : Flip(direction)
    \/ \E size \in CropSizes : ApplyCrop(size)
    \/ \E input \in TextInputs : AddTextOverlay(input)
    \/ \E shapeType \in ShapeTypes : AddShapeOverlay(shapeType)
    \/ AutoEnhance
    \/ EnhanceTimeout
    \/ EditorUndo
    \/ EditorRedo
    \/ \E state \in BagToSet(restores) : RestoreLoaded(state)
    \/ ResetImage
    \/ RemoveBackground
    \/ \E r \in BagToSet(removals) : RemoveCalled(r)
    \/ \E r \in BagToSet(removals) : RemoveResolved(r)
    \/ \E r \in BagToSet(removals) : RemoveRejected(r)
    \/ \E r \in BagToSet(removals) : RemovedLoaded(r)

Spec == Init /\ [][Next]_vars

-----------------------------------------------------------------------------
(* SpecSession: an editing session on one image.  It starts when the       *)
(* image's onload has run: the history holds the entry of the load, which  *)
(* is object 0, and saves counts the saveToHistory calls made after it.    *)

\* the file that was loaded
SessionFile == CHOOSE file \in Files : file.type = "image/png"

InitSession ==
    /\ originalImage = [bitmap |-> SessionFile.bitmap, width |-> SessionFile.width,
                        height |-> SessionFile.height]
    /\ currentImage = imageToCanvas(originalImage)
    /\ overlays = <<>>
    /\ adjustments = zeroAdjustments
    /\ currentFilter = "none"
    /\ history = push(HistoryManager(DefaultMaxSize),
                      snapshot(0, currentImage, adjustments, currentFilter, overlays))
    /\ adjustmentsHeldBy = {}
    /\ overlaysHeldBy = {}
    /\ saves = 0
    /\ loads = EmptyBag
    /\ restores = EmptyBag
    /\ removals = EmptyBag
    /\ isProcessing = FALSE
    /\ timers = 0
    /\ lastOp = "loadImage.onload"
    /\ arg = null
    /\ result = null
    /\ prev = HistoryManager(DefaultMaxSize)
    /\ pushLog = <<>>
    /\ linear = TRUE
    /\ trip = null

NextSession ==
    \/ \E name \in SliderNames, value \in SliderValues : SliderInput(name, value)
    \/ \E filter \in FilterChoices : FilterClick(filter)
    \/ Flip("horizontal")
    \/ ResetImage
    \/ EditorUndo
    \/ EditorRedo
    \/ \E state \in BagToSet(restores) : RestoreLoaded(state)
    \/ RemoveBackground
    \/ \E r \in BagToSet(removals) : RemoveCalled(r)
    \/ \E r \in BagToSet(removals) : RemoveResolved(r)
    \/ \E r \in BagToSet(removals) : RemoveRejected(r)
    \/ \E r \in BagToSet(removals) : RemovedLoaded(r)

SpecSession == InitSession /\ [][NextSession]_vars

\* the external call of a removal settles: its promise resolves or rejects
Settle == \E r \in BagToSet(removals) : RemoveResolved(r) \/ RemoveRejected(r)

\* the session in which every external call settles in the end
SpecSessionFair == SpecSession /\ WF_vars(Settle)

-----------------------------------------------------------------------------
(* SpecHistory: a HistoryManager used on its own.                          *)

InitHistory ==
    /\ \E m \in 1..MaxMaxSize : history = HistoryManager(m)
    /\ lastOp = "new"
    /\ arg = null
    /\ result = null
    /\ prev = history
    /\ pushLog = <<>>
    /\ linear = TRUE
    /\ trip = null
    /\ InitEditor

HistoryPush(e) ==
    /\ UNCHANGED editorVars
    /\ linear => Len(pushLog) < MaxPushes
    /\ history' = push(history, e)
    /\ lastOp' = "push"
    /\ arg' = Some(e)
    /\ result' = null
    /\ prev' = history
    /\ pushLog' = IF linear THEN Append(pushLog, e) ELSE pushLog
    /\ UNCHANGED linear
    /\ UNCHANGED trip

HistoryUndo ==
    /\ UNCHANGED editorVars
    /\ history' = undo(history).h
    /\ result' = undo(history).ret
    /\ lastOp' = "undo"
    /\ arg' = null
    /\ prev' = history
    /\ pushLog' = <<>>
    /\ linear' = FALSE
    /\ UNCHANGED trip

HistoryRedo ==
    /\ UNCHANGED editorVars
    /\ history' = redo(history).h
    /\ result' = redo(history).ret
    /\ lastOp' = "redo"
    /\ arg' = null
    /\ prev' = history
    /\ pushLog' = <<>>
    /\ linear' = FALSE
    /\ UNCHANGED trip

HistoryClear ==
    /\ UNCHANGED editorVars
    /\ history' = clear(history)
    /\ lastOp' = "clear"
    /\ arg' = null
    /\ result' = null
    /\ prev' = history
    /\ pushLog' = <<>>
    /\ linear' = TRUE
    /\ UNCHANGED trip

NextHistory ==
    \/ \E e \in Entries : HistoryPush(e)
    \/ HistoryUndo
    \/ HistoryRedo
    \/ HistoryClear

SpecHistory == InitHistory /\ [][NextHistory]_vars

-----------------------------------------------------------------------------
(* Numbers.  A JavaScript Number is modelled by the exact value it stands   *)
(* for: intermediate values are fractions n/d whose numerator and           *)
(* denominator are integers of any size, held as sequences of base-Base     *)
(* limbs, least significant first; every limb but the last is in 0..Base-1  *)
(* and the last carries the sign.  The rounding error of the binary        *)
(* floating-point operations is left out: a stored sample can differ by one *)
(* from the browser's where the exact value lies within that error of a     *)
(* half (brightness -100 with shadows 64 on the pixel <<0, 0, 255>>).       *)

\* the base of the limbs
Base == 10000

\* the limbs of s made canonical, c being the carry into the first limb
RECURSIVE carry(_, _)
carry(s, c) ==
    IF s = <<>>
    THEN IF c = 0 THEN <<>>
         ELSE IF c >= -Base /\ c < Base THEN <<c>>
         ELSE <<c % Base>> \o carry(<<>>, c \div Base)
    ELSE <<(s[1] + c) % Base>> \o carry(Tail(s), (s[1] + c) \div Base)

\* s without its leading (last) zero limbs
RECURSIVE strip(_)
strip(s) == IF s # <<>> /\ s[Len(s)] = 0 THEN strip(SubSeq(s, 1, Len(s) - 1)) ELSE s

\* the integer k as limbs
Big(k) == strip(carry(<<>>, k))

\* the limbs of a + b + c
RECURSIVE addLimbs(_, _, _)
addLimbs(a, b, c) ==
    IF a = <<>> THEN carry(b, c)
    ELSE IF b = <<>> THEN carry(a, c)
    ELSE <<(a[1] + b[1] + c) % Base>> \o addLimbs(Tail(a), Tail(b), (a[1] + b[1] + c) \div Base)

BigAdd(a, b) == strip(addLimbs(a, b, 0))

\* the limbs of a * k + c
RECURSIVE scaleLimbs(_, _, _)
scaleLimbs(a, k, c) ==
    IF a = <<>> THEN carry(<<>>, c)
    ELSE <<(a[1] * k + c) % Base>> \o scaleLimbs(Tail(a), k, (a[1] * k + c) \div Base)

\* a times the integer k, |k| <= 200000
BigScale(a, k) == strip(scaleLimbs(a, k, 0))

BigSub(a, b) == BigAdd(a, BigScale(b, -1))

\* -1, 0 or 1
BigSign(a) == IF a = <<>> THEN 0 ELSE IF a[Len(a)] < 0 THEN -1 ELSE 1

BigLess(a, b) == BigSign(BigSub(a, b)) < 0

BigMax(a, b) == IF BigLess(a, b) THEN b ELSE a
-----------------------------------------------------------------------------
(* ImageEditor (core/ImageEditor.js): the pixel pipeline.                  *)
(*                                                                         *)
(* A canvas or ImageData is [width, height, data]; data maps the indices   *)
(* 0 .. 4*width*height-1 of the Uint8ClampedArray to samples (R, G, B, A   *)
(* of the pixels in row order).                                            *)

\* a canvas holding the given pixels <<r, g, b, a>> in row order
Canvas(width, height, pixels) ==
    [width |-> width, height |-> height,
     data |-> [i \in 0..(4 * width * height - 1) |-> pixels[(i \div 4) + 1][(i % 4) + 1]]]

\* the store into an array that rounds and does not clamp
ToUint8Clamp_unclamped(n, d) ==
    LET f == n \div d
        twice == 2 * (n - f * d)
    IN  IF twice < d THEN f
        ELSE IF twice > d THEN f + 1
        ELSE IF f % 2 = 0 THEN f ELSE f + 1

\* storing the Number n/d (d > 0) into a Uint8ClampedArray: clamped to
\* 0..255 and rounded to the nearest integer, ties to the even one
ToUint8Clamp(n, d) ==
    IF n <= 0 THEN 0
    ELSE IF n >= 255 * d THEN 255
    ELSE LET f == n \div d
             twice == 2 * (n - f * d)
         IN  IF twice < d THEN f
             ELSE IF twice > d THEN f + 1
             ELSE IF f % 2 = 0 THEN f ELSE f + 1

\* q plus w times the digit of weight w of the integer part of n/d: the
\* number of k in 1..3 with (q + w * k) * d <= n
digit(n, d, q, w) ==
    q + w * Cardinality({k \in 1..3 :
                            BigSign(BigAdd(n, BigScale(d, -(q + w * k)))) >= 0})

\* the integer part of n/d, for 0 <= n < 256 * d: its four digits of base 4
BigFloor(n, d) == digit(n, d, digit(n, d, digit(n, d, digit(n, d, 0, 64), 16), 4), 1)

\* data[i] = Math.max(0, Math.min(255, v)) for v = n/d with limbs (d > 0)
clampStore(n, d) ==
    IF BigSign(n) <= 0 THEN 0
    ELSE IF BigSign(BigAdd(n, BigScale(d, -255))) >= 0 THEN 255
    ELSE LET f == BigFloor(n, d)
             t == BigSign(BigAdd(BigScale(n, 2), BigScale(d, -(2 * f + 1))))
         IN  IF t < 0 THEN f
             ELSE IF t > 0 THEN f + 1
             ELSE IF f % 2 = 0 THEN f ELSE f + 1

(* The adjustment steps act on the three channels of one pixel, held over a *)
(* common denominator: r, g and b stand for r/d, g/d and b/d.               *)

\* the channels read in the order blue, green, red
channels_bgr(r, g, b) == [r |-> Big(b), g |-> Big(g), b |-> Big(r), d |-> Big(1)]

\* let r = data[i], g = data[i + 1], b = data[i + 2]
channels(r, g, b) == [r |-> Big(r), g |-> Big(g), b |-> Big(b), d |-> Big(1)]

\* Each step is under 'if (adjustments.x !== 0)': with its parameter at 0 it
\* leaves the channels as they are; otherwise it assigns to r, g and b (and
\* the model to their common denominator d).

\* factor = 1 + exposure / 100; r *= factor, ...
exposureStep(p, exposure) ==
    IF exposure = 0 THEN p
    ELSE
        [p EXCEPT !.r = BigScale(p.r, 100 + exposure), !.g = BigScale(p.g, 100 + exposure),
         !.b = BigScale(p.b, 100 + exposure), !.d = BigScale(p.d, 100)]

\* adjustment = brightness * 2.55; r += adjustment, ...
brightnessStep(p, brightness) ==
    IF brightness = 0 THEN p
    ELSE
        LET adjustment == BigScale(p.d, 255 * brightness)   \* over 100 * d
        IN  [p EXCEPT !.r = BigAdd(BigScale(p.r, 100), adjustment),
             !.g = BigAdd(BigScale(p.g, 100), adjustment),
             !.b = BigAdd(BigScale(p.b, 100), adjustment),
             !.d = BigScale(p.d, 100)]

\* the contrast step turning about 127 in place of 128
contrastStep_about127(p, contrast) ==
    IF contrast = 0 THEN p
    ELSE
        LET num  == 259 * (contrast + 255)
            den  == 255 * (259 - contrast)
            c127 == BigScale(p.d, 127)
            f(v) == BigAdd(BigScale(BigSub(v, c127), num), BigScale(c127, den))
        IN  [p EXCEPT !.r = f(p.r), !.g = f(p.g), !.b = f(p.b), !.d = BigScale(p.d, den)]

\* factor = (259 * (contrast + 255)) / (255 * (259 - contrast));
\* r = factor * (r - 128) + 128, ...   (contrast < 259)
contrastStep(p, contrast) ==
    IF contrast = 0 THEN p
    ELSE
        LET num  == 259 * (contrast + 255)
            den  == 255 * (259 - contrast)
            c128 == BigScale(p.d, 128)
            f(v) == BigAdd(BigScale(BigSub(v, c128), num), BigScale(c128, den))
        IN  [p EXCEPT !.r = f(p.r), !.g = f(p.g), !.b = f(p.b), !.d = BigScale(p.d, den)]

\* temp = temperature * 0.5; r += temp; b -= temp
temperatureStep(p, temperature) ==
    IF temperature = 0 THEN p
    ELSE
        LET temp == BigScale(p.d, temperature)   \* over 2 * d
        IN  [p EXCEPT !.r = BigAdd(BigScale(p.r, 2), temp),
             !.g = BigScale(p.g, 2),
             !.b = BigSub(BigScale(p.b, 2), temp),
             !.d = BigScale(p.d, 2)]

\* luminance = (r + g + b) / 3;
\* highlightFactor = Math.max(0, (luminance - 128) / 127);
\* adjustment = highlights * highlightFactor * 0.5; r += adjustment, ...
highlightsStep(p, highlights) ==
    IF highlights = 0 THEN p
    ELSE
        LET sum == BigAdd(BigAdd(p.r, p.g), p.b)                      \* 3 * luminance, over d
            highlightFactor == BigMax(<<>>, BigSub(sum, BigScale(p.d, 3 * 128)))  \* over 3 * 127 * d
            adjustment == BigScale(highlightFactor, highlights)          \* over 2 * 3 * 127 * d
        IN  [p EXCEPT !.r = BigAdd(BigScale(p.r, 2 * 3 * 127), adjustment),
             !.g = BigAdd(BigScale(p.g, 2 * 3 * 127), adjustment),
             !.b = BigAdd(BigScale(p.b, 2 * 3 * 127), adjustment),
             !.d = BigScale(p.d, 2 * 3 * 127)]

\* luminance = (r + g + b) / 3;
\* shadowFactor = Math.max(0, (128 - luminance) / 128);
\* adjustment = shadows * shadowFactor * 0.5; r += adjustment, ...
shadowsStep(p, shadows) ==
    IF shadows = 0 THEN p
    ELSE
        LET sum == BigAdd(BigAdd(p.r, p.g), p.b)
            shadowFactor == BigMax(<<>>, BigSub(BigScale(p.d, 3 * 128), sum))     \* over 3 * 128 * d
            adjustment == BigScale(shadowFactor, shadows)                \* over 2 * 3 * 128 * d
        IN  [p EXCEPT !.r = BigAdd(BigScale(p.r, 2 * 3 * 128), adjustment),
             !.g = BigAdd(BigScale(p.g, 2 * 3 * 128), adjustment),
             !.b = BigAdd(BigScale(p.b, 2 * 3 * 128), adjustment),
             !.d = BigScale(p.d, 2 * 3 * 128)]

\* gray = 0.2989 * r + 0.587 * g + 0.114 * b; factor = 1 + saturation / 100;
\* r = gray + factor * (r - gray), ...
saturationStep(p, saturation) ==
    IF saturation = 0 THEN p
    ELSE
        LET gray == BigAdd(BigAdd(BigScale(p.r, 2989), BigScale(p.g, 5870)),
                           BigScale(p.b, 1140))                          \* over 10000 * d
            f(v) == BigAdd(BigScale(gray, 100),
                           BigScale(BigSub(BigScale(v, 10000), gray), 100 + saturation))
        IN  [p EXCEPT !.r = f(p.r), !.g = f(p.g), !.b = f(p.b),                   \* over 100 * 10000 * d
             !.d = BigScale(BigScale(p.d, 10000), 100)]

\* data[i] = ..., data[i + 1] = ..., data[i + 2] = ...: the channels p clamped
\* and stored
storePixel(p) == <<clampStore(p.r, p.d), clampStore(p.g, p.d), clampStore(p.b, p.d)>>

\* the pixel loop with every channel clamped to 0..255 after each step
adjustPixel_clampEachStep(r, g, b, adj) ==
    LET clamp(v, d) == IF BigSign(v) < 0 THEN Big(0)
                       ELSE IF BigLess(BigScale(d, 255), v) THEN BigScale(d, 255)
                       ELSE v
        cl(p) == [p EXCEPT !.r = clamp(p.r, p.d), !.g = clamp(p.g, p.d),
                           !.b = clamp(p.b, p.d)]
    IN  storePixel(
            cl(saturationStep(
            cl(shadowsStep(
            cl(highlightsStep(
            cl(temperatureStep(
            cl(contrastStep(
            cl(brightnessStep(
            cl(exposureStep(channels(r, g, b), adj.exposure)),
                adj.brightness)),
                adj.contrast)),
                adj.temperature)),
                adj.highlights)),
                adj.shadows)),
                adj.saturation)))

\* one turn of the pixel loop of applyAdjustments: the samples <<R, G, B>> stored
adjustPixel(r, g, b, adj) ==
    storePixel(
        saturationStep(
        shadowsStep(
        highlightsStep(
        temperatureStep(
        contrastStep(
        brightnessStep(
        exposureStep(channels(r, g, b), adj.exposure),
            adj.brightness),
            adj.contrast),
            adj.temperature),
            adj.highlights),
            adj.shadows),
            adj.saturation))

\* the Uint8ClampedArray holding the samples of the sequence s
Array(s) == [i \in 0..(Len(s) - 1) |-> s[i + 1]]

\* data.length
length(data) == Cardinality(DOMAIN data)

\* the sequence s with each of its elements computed once
Once(s) == <<>> \o s

\* the pixel loop writing every pixel opaque
adjustFrom_opaque(i, data, adj) ==
    LET px == Once([k \in 1..((length(data) - i) \div 4) |->
                       adjustPixel(data[i + 4 * (k - 1)], data[i + 4 * (k - 1) + 1],
                                   data[i + 4 * (k - 1) + 2], adj)])
    IN  Once([k \in 1..(length(data) - i) |->
                 IF (k - 1) % 4 = 3 THEN 255
                 ELSE px[((k - 1) \div 4) + 1][((k - 1) % 4) + 1]])

\* the pixel loop of applyAdjustments from index i on: the samples stored
\* (R, G and B of every pixel replaced, A kept)
adjustFrom(i, data, adj) ==
    LET px == Once([k \in 1..((length(data) - i) \div 4) |->
                       adjustPixel(data[i + 4 * (k - 1)], data[i + 4 * (k - 1) + 1],
                                   data[i + 4 * (k - 1) + 2], adj)])
    IN  Once([k \in 1..(length(data) - i) |->
                 IF (k - 1) % 4 = 3 THEN data[i + k - 1]
                 ELSE px[((k - 1) \div 4) + 1][((k - 1) % 4) + 1]])

\* kernel of applySharpness for amount = sharpness / 100, in hundredths
kernel(sharpness) ==
    <<0, -sharpness, 0,
      -sharpness, 100 + 4 * sharpness, -sharpness,
      0, -sharpness, 0>>

\* 100 * sum for the channel c of the pixel (x, y): the nine products
\* original[idx] * kernel[(ky + 1) * 3 + (kx + 1)]
kernelSum(original, width, x, y, c, sharpness) ==
    LET term(ky, kx) ==
            original[((y + ky) * width + (x + kx)) * 4 + c]
                * kernel(sharpness)[(ky + 1) * 3 + (kx + 1) + 1]
    IN  term(-1, -1) + term(-1, 0) + term(-1, 1)
      + term(0, -1)  + term(0, 0)  + term(0, 1)
      + term(1, -1)  + term(1, 0)  + term(1, 1)

\* the sharpening run on every pixel, the neighbours beyond the edge taken
\* to be the nearest pixel of the edge
sharpenFrom_replicate(k, data, original, width, height, sharpness) ==
    Array(Once([j \in 1..length(data) |->
        LET idx == j - 1
            y   == (idx \div 4) \div width
            x   == (idx \div 4) % width
            c   == idx % 4
            cx(v) == IF v < 0 THEN 0 ELSE IF v > width - 1 THEN width - 1 ELSE v
            cy(v) == IF v < 0 THEN 0 ELSE IF v > height - 1 THEN height - 1 ELSE v
            term(ky, kx) ==
                original[(cy(y + ky) * width + cx(x + kx)) * 4 + c]
                    * kernel(sharpness)[(ky + 1) * 3 + (kx + 1) + 1]
            sum == term(-1, -1) + term(-1, 0) + term(-1, 1)
                 + term(0, -1)  + term(0, 0)  + term(0, 1)
                 + term(1, -1)  + term(1, 0)  + term(1, 1)
        IN  IF c < 3 /\ (y * width + x) * 3 + c >= k
            THEN ToUint8Clamp(sum, 100)
            ELSE data[idx]]))

\* the loops reading the neighbours from the data they are writing, in place
\* of the copy made before them
RECURSIVE sharpenFrom_inPlace(_, _, _, _, _, _)
sharpenFrom_inPlace(k, data, original, width, height, sharpness) ==
    IF width < 3 \/ height < 3 \/ k >= (width - 2) * (height - 2) * 3 THEN data
    ELSE LET x == 1 + ((k \div 3) % (width - 2))
             y == 1 + (k \div 3) \div (width - 2)
             c == k % 3
         IN  sharpenFrom_inPlace(
                 k + 1,
                 [data EXCEPT ![(y * width + x) * 4 + c] =
                     ToUint8Clamp(kernelSum(data, width, x, y, c, sharpness), 100)],
                 original, width, height, sharpness)

\* the loops of applySharpness from their k-th turn on: the data after them.
\* The turns visit the interior pixels row by row and the channels 0, 1, 2 of
\* each; data[idx] is written in the turn of its pixel and channel.
sharpenFrom(k, data, original, width, height, sharpness) ==
    Array(Once([j \in 1..length(data) |->
        LET idx == j - 1
            y   == (idx \div 4) \div width
            x   == (idx \div 4) % width
            c   == idx % 4
        IN  IF /\ 1 <= y /\ y < height - 1
               /\ 1 <= x /\ x < width - 1
               /\ c < 3
               /\ ((y - 1) * (width - 2) + (x - 1)) * 3 + c >= k
            THEN ToUint8Clamp(kernelSum(original, width, x, y, c, sharpness), 100)
            ELSE data[idx]]))

\* applySharpness(imageData, sharpness / 100): the data after the call
applySharpness(imageData, sharpness) ==
    sharpenFrom(0, imageData.data, imageData.data, imageData.width, imageData.height,
                sharpness)

\* a Number as a fraction of integers
Frac(n, d) == [n |-> n, d |-> d]

\* Math.min(255, v) and Math.max(0, v)
min255(v) == IF v.n > 255 * v.d THEN Frac(255, 1) ELSE v
max0(v) == IF v.n < 0 THEN Frac(0, 1) ELSE v

\* data[i] = v
store(v) == ToUint8Clamp(v.n, v.d)

FilterIds == {"none", "vintage", "bw", "sepia", "vibrant", "warm", "cool",
              "dramatic", "fade", "noir"}

\* one turn of the pixel loop of applyFilter: the samples <<R, G, B>> stored
filterPixel(r, g, b, filter) ==
    CASE filter = "vintage" ->
           <<store(min255(Frac(11 * r + 200, 10))),
             store(min255(Frac(9 * g, 10))),
             store(min255(Frac(8 * b, 10)))>>
      [] filter = "bw" ->
           LET gray == Frac(299 * r + 587 * g + 114 * b, 1000)
           IN  <<store(gray), store(gray), store(gray)>>
      [] filter = "sepia" ->
           <<store(min255(Frac(393 * r + 769 * g + 189 * b, 1000))),
             store(min255(Frac(349 * r + 686 * g + 168 * b, 1000))),
             store(min255(Frac(272 * r + 534 * g + 131 * b, 1000)))>>
      [] filter = "vibrant" ->
           \* gray = (r + g + b) / 3; gray + (v - gray) * 1.5 = (9 v - (r + g + b)) / 6
           LET f(v) == store(min255(Frac(9 * v - (r + g + b), 6)))
           IN  <<f(r), f(g), f(b)>>
      [] filter = "warm" ->
           <<store(min255(Frac(11 * r, 10))),
             store(min255(Frac(105 * g, 100))),
             store(max0(Frac(9 * b, 10)))>>
      [] filter = "cool" ->
           <<store(max0(Frac(9 * r, 10))),
             store(min255(Frac(105 * g, 100))),
             store(min255(Frac(11 * b, 10)))>>
      [] filter = "dramatic" ->
           \* gray = G / 1000; 1.3 * (v * 0.9 + gray * 0.1 - 128) + 128
           \*   = (13 * (9000 v + G - 1280000) + 12800000) / 100000
           LET G == 299 * r + 587 * g + 114 * b
               f(v) == store(max0(min255(
                           Frac(13 * (9000 * v + G - 1280000) + 12800000, 100000))))
           IN  <<f(r), f(g), f(b)>>
      [] filter = "fade" ->
           LET f(v) == store(min255(Frac(85 * v + 3000, 100)))
           IN  <<f(r), f(g), f(b)>>
      [] filter = "noir" ->
           \* gray = G / 1000; 1.4 * (gray - 128) + 128 = (14 G - 512000) / 10000
           LET G == 299 * r + 587 * g + 114 * b
               stretched == max0(min255(Frac(14 * G - 512000, 10000)))
               gray == IF stretched.n < 40 * stretched.d
                       THEN Frac(stretched.n, 2 * stretched.d) ELSE stretched
           IN  <<store(gray), store(gray), store(gray)>>
      [] OTHER -> <<r, g, b>>

\* the pixel loop computing each channel from the channels it has already
\* overwritten
filterFrom_overwritten(i, data, filter) ==
    LET px == Once([k \in 1..((length(data) - i) \div 4) |->
                       LET r == data[i + 4 * (k - 1)]
                           g == data[i + 4 * (k - 1) + 1]
                           b == data[i + 4 * (k - 1) + 2]
                           r2 == filterPixel(r, g, b, filter)[1]
                           g2 == filterPixel(r2, g, b, filter)[2]
                       IN  <<r2, g2, filterPixel(r2, g2, b, filter)[3]>>])
    IN  Once([k \in 1..(length(data) - i) |->
                 IF (k - 1) % 4 = 3 THEN data[i + k - 1]
                 ELSE px[((k - 1) \div 4) + 1][((k - 1) % 4) + 1]])

\* the pixel loop of applyFilter from index i on: the samples stored
filterFrom(i, data, filter) ==
    LET px == Once([k \in 1..((length(data) - i) \div 4) |->
                       filterPixel(data[i + 4 * (k - 1)], data[i + 4 * (k - 1) + 1],
                                   data[i + 4 * (k - 1) + 2], filter)])
    IN  Once([k \in 1..(length(data) - i) |->
                 IF (k - 1) % 4 = 3 THEN data[i + k - 1]
                 ELSE px[((k - 1) \div 4) + 1][((k - 1) % 4) + 1]])

\* applyFilter(ctx, width, height, filter): the data of the canvas after the call
applyFilter(data, filter) == Array(filterFrom(0, data, filter))


\* if (adjustments.sharpness > 0) this.applySharpness(imageData, sharpness / 100):
\* the data after it
sharpnessStage(canvas, data, adj) ==
    IF adj.sharpness > 0
    THEN applySharpness([canvas EXCEPT !.data = data], adj.sharpness)
    ELSE data

\* if (filter !== 'none') this.applyFilter(ctx, width, height, filter): the
\* data after it
filterStage(data, filter) ==
    IF filter # "none" THEN applyFilter(data, filter) ELSE data

\* the stages of a call that ran, in order
stagesRun(adj, filter) ==
    <<"adjustments">>
        \o (IF adj.sharpness > 0 THEN <<"sharpness">> ELSE <<>>)
        \o (IF filter # "none" THEN <<"filter">> ELSE <<>>)

\* what a call leaves: the canvas returned, holding data, the source canvas
\* after the call and the stages that ran
returned(sourceCanvas, data, stages) ==
    [canvas |-> [sourceCanvas EXCEPT !.data = data],
     source |-> sourceCanvas,
     stages |-> stages]

\* the same pipeline putting its pixels back onto the source canvas
applyAdjustments_inPlace(sourceCanvas, adj, filter) ==
    returned([sourceCanvas EXCEPT !.data =
                 filterStage(sharpnessStage(sourceCanvas,
                                            Array(adjustFrom(0, sourceCanvas.data, adj)), adj),
                             filter)],
             filterStage(sharpnessStage(sourceCanvas,
                                        Array(adjustFrom(0, sourceCanvas.data, adj)), adj),
                         filter),
             stagesRun(adj, filter))

\* the colour filter run before the sharpening
applyAdjustments_filterFirst(sourceCanvas, adj, filter) ==
    returned(sourceCanvas,
             sharpnessStage(sourceCanvas,
                            filterStage(Array(adjustFrom(0, sourceCanvas.data, adj)), filter),
                            adj),
             <<"adjustments">>
                 \o (IF filter # "none" THEN <<"filter">> ELSE <<>>)
                 \o (IF adj.sharpness > 0 THEN <<"sharpness">> ELSE <<>>))

\* ImageEditor.applyAdjustments(sourceCanvas, adjustments, filter): the source
\* drawn onto a new canvas, the pixel loop, the sharpening, putImageData and
\* the filter
applyAdjustments(sourceCanvas, adj, filter) ==
    returned(sourceCanvas,
             filterStage(sharpnessStage(sourceCanvas,
                                        Array(adjustFrom(0, sourceCanvas.data, adj)), adj),
                         filter),
             stagesRun(adj, filter))

-----------------------------------------------------------------------------
(* Photeditor (main.js): rendering onto the display and the export canvas. *)

\* a canvas as created or cleared: transparent black
blank(width, height) ==
    [width |-> width, height |-> height,
     data |-> [i \in 0..(4 * width * height - 1) |-> 0]]

\* the pixel <<r, g, b, a>> at (x, y) of a canvas
pixelAt(canvas, x, y) ==
    LET i == (y * canvas.width + x) * 4
    IN  <<canvas.data[i], canvas.data[i + 1], canvas.data[i + 2], canvas.data[i + 3]>>

\* source-over compositing of the pixel s onto the pixel d; where both are
\* partly transparent the samples are rounded to the nearest integer
over(s, d) ==
    IF s[4] = 255 \/ d[4] = 0 THEN s
    ELSE IF s[4] = 0 THEN d
    ELSE LET a255 == 255 * s[4] + d[4] * (255 - s[4])
             mix(c) == (2 * (255 * s[c] * s[4] + d[c] * d[4] * (255 - s[4])) + a255)
                           \div (2 * a255)
         IN  <<mix(1), mix(2), mix(3), (2 * a255 + 255) \div (2 * 255)>>

\* the canvas after painting: the pixels (x, y) with covered(x, y) get the
\* colour paint(x, y) composited onto them
composite(canvas, covered(_, _), paint(_, _)) ==
    [canvas EXCEPT !.data = Array(Once(
        [k \in 1..(4 * canvas.width * canvas.height) |->
            LET i == k - 1
                x == (i \div 4) % canvas.width
                y == (i \div 4) \div canvas.width
            IN  IF covered(x, y)
                THEN over(paint(x, y), pixelAt(canvas, x, y))[(i % 4) + 1]
                ELSE canvas.data[i]]))]

\* ctx.drawImage(image, 0, 0) on the canvas of ctx
drawImage(canvas, image) ==
    composite(canvas,
              LAMBDA x, y : x < image.width /\ y < image.height,
              LAMBDA x, y : pixelAt(image, x, y))

\* a clearRect that clears nothing
clearRect_none(canvas) == canvas

\* ctx.clearRect(0, 0, canvas.width, canvas.height)
clearRect(canvas) == blank(canvas.width, canvas.height)

\* the colours the overlays are drawn in, as <<r, g, b, a>>
rgba(color) ==
    CASE color = "#ffffff"   -> <<255, 255, 255, 255>>
      [] color = "#ff4444"   -> <<255, 68, 68, 255>>
      [] color = "#ff444466" -> <<255, 68, 68, 102>>

\* drawTextOverlay(overlay): fillText in overlay.color, centred on
\* (overlay.x, overlay.y).  The glyphs and their shadow are the platform's;
\* the model paints the pixel at the anchor.
drawTextOverlay(canvas, overlay) ==
    composite(canvas,
              LAMBDA x, y : x = overlay.x /\ y = overlay.y,
              LAMBDA x, y : rgba(overlay.color))

\* drawShapeOverlay(overlay) for a rectangle: fillRect when overlay.fill, then
\* strokeRect.  A pixel is filled when its centre lies in the rectangle and
\* stroked when its centre is within strokeWidth / 2 of the outline
\* (coordinates doubled, joins square).
drawShapeOverlay(canvas, overlay) ==
    LET left   == 2 * overlay.x
        right  == 2 * (overlay.x + overlay.width)
        top    == 2 * overlay.y
        bottom == 2 * (overlay.y + overlay.height)
        lw     == overlay.strokeWidth
        inside(x, y, grow) ==
            /\ left - grow <= 2 * x + 1 /\ 2 * x + 1 <= right + grow
            /\ top - grow <= 2 * y + 1  /\ 2 * y + 1 <= bottom + grow
        filled == IF overlay.fill
                  THEN composite(canvas,
                                 LAMBDA x, y : inside(x, y, 0),
                                 LAMBDA x, y : rgba(overlay.fillColor))
                  ELSE canvas
    IN  composite(filled,
                  LAMBDA x, y : inside(x, y, lw) /\ ~inside(x, y, -lw - 1),
                  LAMBDA x, y : rgba(overlay.strokeColor))

\* the overlays drawn from the last of the list to the first
RECURSIVE drawOverlays_reversed(_, _)
drawOverlays_reversed(canvas, ovs) ==
    IF ovs = <<>> THEN canvas
    ELSE drawOverlays_reversed(
             IF ovs[Len(ovs)].type = "text" THEN drawTextOverlay(canvas, ovs[Len(ovs)])
             ELSE IF ovs[Len(ovs)].type = "shape" THEN drawShapeOverlay(canvas, ovs[Len(ovs)])
             ELSE canvas,
             SubSeq(ovs, 1, Len(ovs) - 1))

\* drawOverlays() on the canvas of this.ctx: the overlays in list order
RECURSIVE drawOverlays(_, _)
drawOverlays(canvas, ovs) ==
    IF ovs = <<>> THEN canvas
    ELSE drawOverlays(
             IF ovs[1].type = "text" THEN drawTextOverlay(canvas, ovs[1])
             ELSE IF ovs[1].type = "shape" THEN drawShapeOverlay(canvas, ovs[1])
             ELSE canvas,
             Tail(ovs))

\* ctx.drawImage(processed, 0, 0); drawOverlays(): the canvas drawn on, the
\* source as the render left it and the stages that ran
drawProcessed(canvas, processed, ovs) ==
    [canvas |-> drawOverlays(drawImage(canvas, processed.canvas), ovs),
     source |-> processed.source,
     stages |-> processed.stages \o <<"overlays">>]

\* canvas.width = processed.width; canvas.height = processed.height, and the
\* drawing on the canvas this clears
drawResized(processed, ovs) ==
    drawProcessed(blank(processed.canvas.width, processed.canvas.height), processed, ovs)

\* Photeditor.applyAdjustments(): the display canvas redrawn from the working image
Photeditor_applyAdjustments(canvas, image, adj, filter, ovs) ==
    drawProcessed(clearRect(canvas), applyAdjustments(image, adj, filter), ovs)

\* displayImage(): the display canvas resized to the processed image and drawn
displayImage(image, adj, filter, ovs) ==
    drawResized(applyAdjustments(image, adj, filter), ovs)

\* exportImage() up to toDataURL: the export canvas
exportImage(image, adj, filter, ovs) ==
    drawProcessed(blank(image.width, image.height), applyAdjustments(image, adj, filter), ovs)

-----------------------------------------------------------------------------
(* ImageEditor (core/ImageEditor.js): flip and crop on the pixels.         *)

\* ctx.drawImage(sourceCanvas, 0, 0) on a new canvas of the given size under
\* the transform x -> a * x + e, y -> d * y + f (a and d are 1 or -1): the
\* source pixel (x, y) covers the cell from (a * x + e, d * y + f) to
\* (a * (x + 1) + e, d * (y + 1) + f); what the source does not cover stays
\* transparent
drawTransformed(sourceCanvas, width, height, a, d, e, f) ==
    [width |-> width, height |-> height,
     data |-> Array(Once(
        [k \in 1..(4 * width * height) |->
            LET i == k - 1
                col == (i \div 4) % width
                row == (i \div 4) \div width
                x == IF a = 1 THEN col - e ELSE e - 1 - col
                y == IF d = 1 THEN row - f ELSE f - 1 - row
            IN  IF /\ 0 <= x /\ x < sourceCanvas.width
                   /\ 0 <= y /\ y < sourceCanvas.height
                THEN sourceCanvas.data[(y * sourceCanvas.width + x) * 4 + (i % 4)]
                ELSE 0]))]

\* flip with ctx.scale and without ctx.translate
ImageEditor_flip_noTranslate(sourceCanvas, direction) ==
    IF direction = "horizontal"
    THEN drawTransformed(sourceCanvas, sourceCanvas.width, sourceCanvas.height,
                         -1, 1, 0, 0)
    ELSE drawTransformed(sourceCanvas, sourceCanvas.width, sourceCanvas.height,
                         1, -1, 0, 0)

\* ImageEditor.flip(sourceCanvas, direction): translate(width, 0), scale(-1, 1)
\* for 'horizontal', translate(0, height), scale(1, -1) otherwise, then
\* drawImage(sourceCanvas, 0, 0)
ImageEditor_flip(sourceCanvas, direction) ==
    IF direction = "horizontal"
    THEN drawTransformed(sourceCanvas, sourceCanvas.width, sourceCanvas.height,
                         -1, 1, sourceCanvas.width, 0)
    ELSE drawTransformed(sourceCanvas, sourceCanvas.width, sourceCanvas.height,
                         1, -1, 0, sourceCanvas.height)

\* ImageEditor.crop(sourceCanvas, x, y, width, height) for x = x2/2, y = y2/2,
\* width = w2/2, height = h2/2: a canvas of Math.round(width) by
\* Math.round(height) and drawImage of the source rectangle at
\* (Math.round(x), Math.round(y)) of that size onto it, one to one.  The part
\* of the source rectangle that lies outside the source is clipped, and the
\* canvas stays transparent there.
ImageEditor_crop(sourceCanvas, x2, y2, w2, h2) ==
    drawTransformed(sourceCanvas, roundHalf(w2), roundHalf(h2),
                    1, 1, -roundHalf(x2), -roundHalf(y2))

-----------------------------------------------------------------------------
(* SpecPipeline: the methods of ImageEditor applied to inputs drawn from   *)
(* bounded sets.  currentImage is the source canvas with its samples,      *)
(* result the canvas a method returned and arg the stages that ran.        *)

\* what the pipeline and the renders leave alone
idleVars == <<history, originalImage, adjustmentsHeldBy, overlaysHeldBy, saves,
              asyncVars, pushLog, linear, trip>>

InitIdle ==
    /\ history = HistoryManager(DefaultMaxSize)
    /\ originalImage = NoImage
    /\ adjustmentsHeldBy = {}
    /\ overlaysHeldBy = {}
    /\ saves = 0
    /\ loads = EmptyBag
    /\ restores = EmptyBag
    /\ removals = EmptyBag
    /\ isProcessing = FALSE
    /\ timers = 0
    /\ pushLog = <<>>
    /\ linear = TRUE
    /\ trip = null

\* the source canvases: 4 x 3 with two interior pixels, and 2 x 2 mid-gray
PipelineSources == {
    Canvas(4, 3, << <<255, 0, 0, 255>>,     <<0, 255, 255, 255>>,   <<0, 0, 255, 128>>,   <<1, 2, 3, 4>>,
                    <<128, 128, 128, 255>>, <<200, 100, 50, 255>>,  <<10, 240, 30, 0>>,   <<60, 70, 80, 90>>,
                    <<0, 0, 0, 255>>,       <<255, 255, 255, 255>>, <<90, 90, 200, 77>>,  <<250, 251, 252, 253>> >>),
    Canvas(3, 2, << <<128, 128, 128, 255>>, <<0, 255, 10, 255>>,    <<255, 255, 255, 40>>,
                    <<30, 60, 90, 255>>,    <<128, 128, 128, 255>>, <<200, 20, 220, 0>> >>),
    Canvas(1, 3, << <<255, 128, 0, 255>>, <<5, 50, 250, 200>>, <<128, 128, 128, 255>> >>) }

\* the slider settings rendered without a filter: every slider at rest or
\* moved, and some settings with the sliders moved the other way
AdjustmentChoices ==
    [exposure : {0, 100}, brightness : {0, -100}, contrast : {0, 50},
     temperature : {0, 40}, highlights : {0, 100}, shadows : {0, 64},
     saturation : {0, -50}, sharpness : {0, 20}]
    \cup { autoEnhanceAdjustments,
           [exposure |-> -50, brightness |-> 20, contrast |-> -85, temperature |-> -30,
            highlights |-> -10, shadows |-> -64, saturation |-> 100, sharpness |-> 100],
           [zeroAdjustments EXCEPT !.contrast = -254],
           [zeroAdjustments EXCEPT !.contrast = 254],
           [zeroAdjustments EXCEPT !.saturation = 100, !.sharpness = 100] }

\* the slider settings rendered with every filter
FilterAdjustments == {zeroAdjustments, autoEnhanceAdjustments}

\* a 2 x 2 image, all mid-gray and opaque
GraySource ==
    Canvas(2, 2, << <<128, 128, 128, 255>>, <<128, 128, 128, 255>>,
                    <<128, 128, 128, 255>>, <<128, 128, 128, 255>> >>)

\* the contrast slider alone moved, to every value strictly between -255 and 255
ContrastChoices == { [zeroAdjustments EXCEPT !.contrast = c] : c \in -254..254 }

\* a 4 x 3 source of midtones: its two interior pixels lie side by side and
\* their sharpened samples stay inside 0..255
SharpenSource ==
    Canvas(4, 3, << <<100, 90, 80, 255>>,   <<110, 100, 95, 255>>,  <<120, 130, 90, 255>>,  <<130, 120, 100, 255>>,
                    <<105, 110, 100, 255>>, <<140, 120, 110, 255>>, <<120, 125, 105, 255>>, <<125, 115, 95, 255>>,
                    <<110, 95, 85, 255>>,   <<115, 105, 100, 255>>, <<125, 120, 110, 255>>, <<120, 110, 90, 255>> >>)

\* the sharpness slider alone moved
SharpenChoices == { [zeroAdjustments EXCEPT !.sharpness = a] : a \in {20, 100} }

InitPipeline ==
    /\ InitIdle
    /\ \/ /\ currentImage \in PipelineSources
          /\ \/ adjustments \in AdjustmentChoices /\ currentFilter = "none"
             \/ adjustments \in FilterAdjustments /\ currentFilter \in FilterIds
       \/ /\ currentImage = GraySource
          /\ adjustments \in ContrastChoices
          /\ currentFilter = "none"
       \/ /\ currentImage = SharpenSource
          /\ adjustments \in SharpenChoices
          /\ currentFilter = "none"
    /\ overlays = <<>>
    /\ lastOp = "new"
    /\ arg = null
    /\ result = null
    /\ prev = null

\* imageEditor.applyAdjustments(currentImage, adjustments, currentFilter)
ApplyAdjustments ==
    /\ lastOp = "new"
    /\ LET processed == applyAdjustments(currentImage, adjustments, currentFilter)
       IN  /\ result' = Some(processed.canvas)
           /\ arg' = Some(processed.stages)
           /\ currentImage' = processed.source
    /\ lastOp' = "applyAdjustments"
    /\ UNCHANGED <<adjustments, currentFilter, overlays, prev, idleVars>>

\* imageEditor.applySharpness(imageData, sharpness / 100) on the source's ImageData
ApplySharpness ==
    /\ lastOp = "new"
    /\ result' = Some([currentImage EXCEPT
                          !.data = applySharpness(currentImage, adjustments.sharpness)])
    /\ arg' = null
    /\ lastOp' = "applySharpness"
    /\ UNCHANGED <<currentImage, adjustments, currentFilter, overlays, prev, idleVars>>

\* imageEditor.applyFilter(ctx, width, height, currentFilter) on the source canvas
ApplyFilter ==
    /\ lastOp = "new"
    /\ result' = Some([currentImage EXCEPT
                          !.data = applyFilter(currentImage.data, currentFilter)])
    /\ arg' = null
    /\ lastOp' = "applyFilter"
    /\ UNCHANGED <<currentImage, adjustments, currentFilter, overlays, prev, idleVars>>

NextPipeline ==
    \/ ApplyAdjustments
    \/ ApplySharpness
    \/ ApplyFilter

SpecPipeline == InitPipeline /\ [][NextPipeline]_vars

-----------------------------------------------------------------------------
(* SpecRender: the Photeditor's renders.  currentImage is the working      *)
(* image with its samples, result the display canvas, arg the canvas and   *)
(* the stages of the last render, prev the display before it.              *)

\* the working image: 4 x 4, with transparent and half-transparent pixels;
\* bitmap names these pixels in the data URLs of the history entries
RenderSource ==
    [bitmap |-> 1] @@
    Canvas(4, 4, << <<255, 0, 0, 255>>,     <<0, 255, 255, 255>>,   <<0, 0, 255, 128>>,    <<0, 0, 0, 0>>,
                    <<128, 128, 128, 255>>, <<200, 100, 50, 255>>,  <<10, 240, 30, 255>>,  <<60, 70, 80, 90>>,
                    <<0, 0, 0, 255>>,       <<255, 255, 255, 255>>, <<90, 90, 200, 255>>,  <<250, 251, 252, 253>>,
                    <<7, 7, 7, 0>>,         <<33, 66, 99, 255>>,    <<240, 10, 120, 255>>, <<100, 100, 100, 255>> >>)

\* the overlays added before the renders
RenderOverlays == { <<>>,
                    <<textOverlay(<<"H", "i">>, RenderSource)>>,
                    <<shapeOverlay("rectangle", RenderSource)>> }

\* the sliders moved and the values they are moved to
RenderSliders == [brightness |-> {0, 20}, sharpness |-> {0, 50}]

\* the filter buttons clicked
RenderFilters == {"none", "sepia"}

InitRender ==
    /\ InitIdle
    /\ currentImage = RenderSource
    /\ adjustments = zeroAdjustments
    /\ currentFilter = "none"
    /\ overlays \in RenderOverlays
    /\ result = Some(displayImage(currentImage, adjustments, currentFilter, overlays).canvas)
    /\ lastOp = "new"
    /\ arg = null
    /\ prev = null

\* what a render leaves behind; shown tells whether it drew on the display canvas
Rendered(op, render, shown) ==
    /\ lastOp' = op
    /\ arg' = Some([canvas |-> render.canvas, stages |-> render.stages])
    /\ prev' = result
    /\ result' = IF shown THEN Some(render.canvas) ELSE result
    /\ currentImage' = render.source
    /\ UNCHANGED idleVars

\* the 'input' listener of an adjustment slider, with its redraw
SliderInputRedraw(name, value) ==
    /\ adjustments' = [adjustments EXCEPT ![name] = value]
    /\ Rendered("slider",
                Photeditor_applyAdjustments(result[1], currentImage, adjustments',
                                            currentFilter, overlays),
                TRUE)
    /\ UNCHANGED <<currentFilter, overlays>>

\* the 'click' listener of a filter button, with its redraw
FilterClickRedraw(filter) ==
    /\ currentFilter' = filter
    /\ Rendered("filter",
                Photeditor_applyAdjustments(result[1], currentImage, adjustments,
                                            currentFilter', overlays),
                TRUE)
    /\ UNCHANGED <<adjustments, overlays>>

\* displayImage()
DisplayImage ==
    /\ Rendered("displayImage",
                displayImage(currentImage, adjustments, currentFilter, overlays), TRUE)
    /\ UNCHANGED <<adjustments, currentFilter, overlays>>

\* exportImage(): the display canvas is not drawn on
ExportImage ==
    /\ Rendered("exportImage",
                exportImage(currentImage, adjustments, currentFilter, overlays), FALSE)
    /\ UNCHANGED <<adjustments, currentFilter, overlays>>

NextRender ==
    \/ \E name \in DOMAIN RenderSliders : \E value \in RenderSliders[name] :
          SliderInputRedraw(name, value)
    \/ \E filter \in RenderFilters : FilterClickRedraw(filter)
    \/ DisplayImage
    \/ ExportImage

SpecRender == InitRender /\ [][NextRender]_vars

-----------------------------------------------------------------------------
(* SpecOverlays: overlays added one after the other to the working image   *)
(* of SpecRender, with the renders in between.  The variables are used as  *)
(* in SpecRender; history holds the states the additions save.             *)

\* overlays on one image
MaxOverlays == 3

InitOverlays ==
    /\ InitIdle
    /\ currentImage = RenderSource
    /\ \E value \in RenderSliders.brightness :
          adjustments = [zeroAdjustments EXCEPT !.brightness = value]
    /\ currentFilter \in RenderFilters
    /\ overlays = <<>>
    /\ result = Some(displayImage(currentImage, adjustments, currentFilter, overlays).canvas)
    /\ lastOp = "new"
    /\ arg = null
    /\ prev = null

\* what addTextOverlay and addShapeOverlay leave behind once the overlay is
\* pushed onto this.overlays: this.applyAdjustments() redraws the display
\* canvas and saveToHistory() pushes the state
RenderedAndSaved(op, render) ==
    /\ lastOp' = op
    /\ arg' = Some([canvas |-> render.canvas, stages |-> render.stages])
    /\ prev' = result
    /\ result' = Some(render.canvas)
    /\ currentImage' = render.source
    /\ history' = push(history, snapshot(saves + 1, render.source, adjustments,
                                          currentFilter, overlays'))
    /\ saves' = saves + 1
    /\ UNCHANGED <<adjustments, currentFilter, originalImage, adjustmentsHeldBy,
                   overlaysHeldBy, asyncVars, pushLog, linear, trip>>

\* addTextOverlay(), with its redraw
AddTextOverlayRedraw(input) ==
    IF trim(input) = <<>>
    THEN UNCHANGED vars
    ELSE /\ Len(overlays) < MaxOverlays
         /\ overlays' = Append(overlays, textOverlay(trim(input), currentImage))
         /\ RenderedAndSaved("addTextOverlay",
                             Photeditor_applyAdjustments(result[1], currentImage, adjustments,
                                                         currentFilter, overlays'))

\* addShapeOverlay(), with its redraw
AddShapeOverlayRedraw(shapeType) ==
    /\ Len(overlays) < MaxOverlays
    /\ overlays' = Append(overlays, shapeOverlay(shapeType, currentImage))
    /\ RenderedAndSaved("addShapeOverlay",
                        Photeditor_applyAdjustments(result[1], currentImage, adjustments,
                                                    currentFilter, overlays'))

NextOverlays ==
    \/ \E input \in TextInputs : AddTextOverlayRedraw(input)
    \/ \E shapeType \in ShapeTypes : AddShapeOverlayRedraw(shapeType)
    \/ DisplayImage
    \/ ExportImage

SpecOverlays == InitOverlays /\ [][NextOverlays]_vars

-----------------------------------------------------------------------------
(* SpecTransform: ImageEditor.flip and ImageEditor.crop applied to the     *)
(* working image, as Photeditor.flip and Photeditor.applyCrop apply them.  *)
(* originalImage is the image loaded, currentImage the working image with  *)
(* its samples, prev the working image before the last call and arg the    *)
(* calls made so far.                                                      *)

\* calls made on one image
MaxTransforms == 2

\* the crop selections <<2x, 2y, 2 width, 2 height>> tried on a canvas: they
\* lie within the canvas, start near its top left corner and end near its
\* bottom right corner, on pixel borders and on pixel centres
CropSelections(canvas) ==
    { sel \in (0..2) \X (0..1) \X (1..(2 * canvas.width)) \X (1..(2 * canvas.height)) :
        /\ sel[1] + sel[3] <= 2 * canvas.width
        /\ sel[1] + sel[3] >= 2 * canvas.width - 2
        /\ sel[2] + sel[4] <= 2 * canvas.height
        /\ sel[2] + sel[4] >= 2 * canvas.height - 1 }

InitTransform ==
    /\ history = HistoryManager(DefaultMaxSize)
    /\ originalImage \in PipelineSources
    /\ currentImage = originalImage
    /\ adjustments = zeroAdjustments
    /\ currentFilter = "none"
    /\ overlays = <<>>
    /\ adjustmentsHeldBy = {}
    /\ overlaysHeldBy = {}
    /\ saves = 0
    /\ loads = EmptyBag
    /\ restores = EmptyBag
    /\ removals = EmptyBag
    /\ isProcessing = FALSE
    /\ timers = 0
    /\ pushLog = <<>>
    /\ linear = TRUE
    /\ trip = null
    /\ lastOp = "new"
    /\ arg = <<>>
    /\ result = null
    /\ prev = null

\* this.currentImage = this.imageEditor.flip(this.currentImage, direction)
FlipCanvas(direction) ==
    /\ Len(arg) < MaxTransforms
    /\ currentImage' = ImageEditor_flip(currentImage, direction)
    /\ prev' = Some(currentImage)
    /\ arg' = Append(arg, [op |-> "flip", direction |-> direction])
    /\ lastOp' = "flip"
    /\ UNCHANGED <<adjustments, currentFilter, overlays, result, idleVars>>

\* this.currentImage = this.imageEditor.crop(this.currentImage, x, y, width, height)
\* with the selection sel = <<2x, 2y, 2 width, 2 height>>
CropCanvas(sel) ==
    /\ Len(arg) < MaxTransforms
    /\ currentImage' = ImageEditor_crop(currentImage, sel[1], sel[2], sel[3], sel[4])
    /\ prev' = Some(currentImage)
    /\ arg' = Append(arg, [op |-> "crop", sel |-> sel])
    /\ lastOp' = "crop"
    /\ UNCHANGED <<adjustments, currentFilter, overlays, result, idleVars>>

NextTransform ==
    \/ \E direction \in {"horizontal", "vertical"} : FlipCanvas(direction)
    \/ \E sel \in CropSelections(currentImage) : CropCanvas(sel)

SpecTransform == InitTransform /\ [][NextTransform]_vars

-----------------------------------------------------------------------------
(* Properties of the HistoryManager (checked under SpecHistory).           *)

\* the entries up to and including the cursor of h
UpToCursor(h) == SubSeq(h.states, 1, h.currentIndex + 1)

\* s without its last element
Front(s) == SubSeq(s, 1, Len(s) - 1)

\* the last n elements of s
LastN(s, n) == SubSeq(s, Len(s) - n + 1, Len(s))

\* C1: branch discard. After push(e) the last entry is e, the cursor is the
\* last index, nothing is redo-able (redo returns nothing), and the entries
\* before e are exactly the entries up to the old cursor, in order, less the
\* oldest one when the bound forced an eviction.
C1_BranchDiscard ==
    lastOp = "push" =>
        LET kept == UpToCursor(prev)
            n    == Len(history.states)
        IN  /\ n >= 1
            /\ Some(history.states[n]) = arg
            /\ history.currentIndex = n - 1
            /\ ~(history.currentIndex < n - 1)
            /\ redo(history).ret = null
            /\ Front(history.states) =
                   IF Len(kept) + 1 > prev.maxSize THEN Tail(kept) ELSE kept

\* push A, B, C; undo; push D gives [A,B,D] with cursor 2
C1_Witness ==
    /\ lastOp = "push"
    /\ arg = Some("D")
    /\ prev.states = <<"A", "B", "C">>
    /\ prev.currentIndex = 1
    /\ history.states = <<"A", "B", "D">>
    /\ history.currentIndex = 2

\* C2: bounded retention. After N > maxSize pushes into an empty history
\* with no undo or redo in between, the entries are the maxSize most
\* recently pushed ones in push order and the cursor is on the last pushed.
C2_BoundedRetention ==
    (linear /\ Len(pushLog) > history.maxSize) =>
        /\ history.states = LastN(pushLog, history.maxSize)
        /\ history.currentIndex = Len(history.states) - 1
        /\ at(history.states, history.currentIndex) = Some(pushLog[Len(pushLog)])

C2_Witness ==
    /\ linear
    /\ history.maxSize = 2
    /\ pushLog = <<"A", "B", "C", "D">>
    /\ history.states = <<"C", "D">>

\* C3: cursor invariant. Either the history is empty and the cursor is -1,
\* or 0 <= cursor < number of entries.
C3_CursorInvariant ==
    \/ history.states = <<>> /\ history.currentIndex = -1
    \/ /\ history.states # <<>>
       /\ 0 <= history.currentIndex
       /\ history.currentIndex < Len(history.states)

\* a full history undone down to its first entry, where one more undo is refused
C3_Witness ==
    /\ lastOp = "undo"
    /\ result = null
    /\ history.currentIndex = 0
    /\ Len(history.states) = history.maxSize
    /\ history.maxSize >= 2

\* C4: size invariant. There are never more than maxSize entries; a push
\* that would exceed the bound evicts exactly the oldest entry and moves the
\* cursor down by one, so that it designates the entry just pushed.
C4_SizeInvariant ==
    /\ Len(history.states) <= history.maxSize
    /\ (lastOp = "push" /\ Len(UpToCursor(prev)) + 1 > prev.maxSize) =>
           /\ history.states = Tail(UpToCursor(prev)) \o arg
           /\ history.currentIndex = (prev.currentIndex + 1) - 1
           /\ at(history.states, history.currentIndex) = arg

C4_Witness ==
    /\ lastOp = "push"
    /\ prev.maxSize >= 2
    /\ Len(prev.states) = prev.maxSize
    /\ prev.currentIndex = prev.maxSize - 1
    /\ Len(history.states) = history.maxSize
    /\ history.states[1] # prev.states[1]

\* C5: whenever cursor > 0, undo() moves the cursor down by exactly one,
\* returns the entry stored at the new cursor and leaves the entries alone.
C5_UndoStep ==
    (lastOp = "undo" /\ prev.currentIndex > 0) =>
        /\ history.currentIndex = prev.currentIndex - 1
        /\ result = Some(prev.states[history.currentIndex + 1])
        /\ history.states = prev.states
        /\ history.maxSize = prev.maxSize

\* an undo whose returned entry differs from the entry it left
C5_Witness ==
    /\ lastOp = "undo"
    /\ prev.currentIndex > 0
    /\ result # null
    /\ result # Some(prev.states[prev.currentIndex + 1])

\* C6: whenever cursor < length-1, redo() moves the cursor up by exactly
\* one, returns the entry stored at the new cursor and leaves the entries alone.
C6_RedoStep ==
    (lastOp = "redo" /\ prev.currentIndex < Len(prev.states) - 1) =>
        /\ history.currentIndex = prev.currentIndex + 1
        /\ result = Some(prev.states[history.currentIndex + 1])
        /\ history.states = prev.states
        /\ history.maxSize = prev.maxSize

\* a redo from the first of three entries, which must stop at the second
C6_Witness ==
    /\ lastOp = "redo"
    /\ prev.currentIndex = 0
    /\ Len(prev.states) = 3
    /\ history.currentIndex = 1
    /\ result = Some(prev.states[2])

-----------------------------------------------------------------------------
(* Properties of the Photeditor (checked under Spec).                      *)

\* the handlers that commit an edit
CommitOps == {"loadImage.onload", "rotate", "flip", "applyCrop", "addTextOverlay",
              "addShapeOverlay", "removeBackground.onload", "resetImage"}

\* C7: history underflow is a no-op. undo() returns an entry exactly when
\* canUndo() held before the call (cursor > 0), redo() exactly when canRedo()
\* held (cursor < length-1); otherwise the call returns nothing, leaves the
\* entries and the cursor as they were, and the editor's undo()/redo()
\* changes no editor state and registers no restore.
C7_UnderflowNoOp ==
    [][ /\ lastOp' = "undo" =>
            /\ (result' # null) <=> (history.currentIndex > 0)
            /\ ~(history.currentIndex > 0) =>
                   result' = null /\ history' = history /\ UNCHANGED editorVars
        /\ lastOp' = "redo" =>
            /\ (result' # null) <=> (history.currentIndex < Len(history.states) - 1)
            /\ ~(history.currentIndex < Len(history.states) - 1) =>
                   result' = null /\ history' = history /\ UNCHANGED editorVars
      ]_vars

\* two entries, the cursor already undone to the first, and one more undo refused
C7_Witness ==
    /\ lastOp = "undo"
    /\ result = null
    /\ history.currentIndex = 0
    /\ Len(history.states) = 2

\* C8: loading a new source image clears the history: when loadImage has
\* completed, the history holds no entry saved before that load and undo
\* is not available.
C8_LoadClearsHistory ==
    lastOp = "loadImage.onload" =>
        /\ \A i \in 1..Len(history.states) : history.states[i].id = saves
        /\ ~(history.currentIndex > 0)

externalCalls ==
    [r \in {x \in BagToSet(removals) : x.pc = "external"} |-> CopiesIn(r, removals)]

\* C11: single-flight background removal. At most one external removal call
\* is in flight at any time, and the busy flag is set exactly while one is;
\* a remove() made while an earlier call is pending fails at once (the
\* request leaves the pending removals in the same step), starts no second
\* external call, and leaves the first call and the busy flag as they were.
C11_SingleFlight ==
    /\ [](/\ BagCardinality(externalCalls) <= 1
          /\ isProcessing <=> BagCardinality(externalCalls) = 1)
    /\ [][ lastOp' = "remove.busy" =>
             /\ isProcessing
             /\ isProcessing'
             /\ externalCalls' = externalCalls
             /\ BagCardinality(externalCalls') = 1
             /\ BagCardinality(removals') = BagCardinality(removals) - 1
         ]_vars

\* a second request was refused while the first call is still in flight
C11_Witness ==
    /\ lastOp = "remove.busy"
    /\ isProcessing
    /\ BagCardinality(externalCalls) = 1
    /\ BagCardinality(removals) = 1

\* C12: a failed background removal leaves the prior state unchanged. When
\* the removal call rejects (external failure or busy rejection), the
\* original and working image, adjustments, filter, overlays and the
\* history (entries and cursor) are what they were, no entry is pushed, and
\* the request is dropped without a result to apply later.
C12_FailureLeavesState ==
    [][ lastOp' \in {"remove.busy", "remove.rejected"} =>
          /\ UNCHANGED <<history, originalImage, currentImage, adjustments,
                         currentFilter, overlays, saves>>
          /\ \E r \in BagToSet(removals) :
                /\ r.pc # "decode"
                /\ removals' = BagRemove(removals, r)
      ]_vars

\* the external call was rejected after an edit that a partial change would undo
C12_Witness ==
    /\ lastOp = "remove.rejected"
    /\ ~isProcessing
    /\ removals = EmptyBag
    /\ history.states # <<>>
    /\ adjustments # zeroAdjustments
    /\ currentFilter # "none"

\* C13: success of background removal. When the decoded result arrives it
\* becomes the working image (fresh pixels of the requested image's size) and
\* exactly one entry holding it is pushed; no other step of a removal
\* (request, call, resolution, rejection) pushes an entry or replaces the
\* working image.
C13_SuccessPushesOnce ==
    [][ /\ lastOp' = "removeBackground.onload" =>
            LET kept == UpToCursor(history)
                n    == Len(history'.states)
            IN  /\ \E r \in BagToSet(removals) :
                      /\ r.pc = "decode"
                      /\ removals' = BagRemove(removals, r)
                      /\ currentImage'.width = r.blob.width
                      /\ currentImage'.height = r.blob.height
                /\ currentImage'.bitmap # currentImage.bitmap
                /\ \A f \in Files : currentImage'.bitmap # f.bitmap
                /\ \A i \in 1..Len(history.states) :
                      history.states[i].imageData.bitmap # currentImage'.bitmap
                /\ n >= 1
                /\ history'.currentIndex = n - 1
                /\ Front(history'.states) =
                       IF Len(kept) + 1 > history.maxSize THEN Tail(kept) ELSE kept
                /\ decode(history'.states[n].imageData) = currentImage'
                /\ \A i \in 1..Len(history.states) :
                      history.states[i].id # history'.states[n].id
        /\ (removals' # removals /\ lastOp' # "removeBackground.onload") =>
               UNCHANGED <<history, currentImage, saves>>
      ]_vars

\* the result of a removal is the working image and the second entry
C13_Witness ==
    /\ lastOp = "removeBackground.onload"
    /\ Len(history.states) = 2
    /\ history.currentIndex = 1
    /\ decode(history.states[2].imageData) = currentImage
    /\ decode(history.states[1].imageData) # currentImage
    /\ removals = EmptyBag

\* C27: when the last pending restore completes, the working image, the
\* adjustments, the filter and the overlays are those of the history entry
\* at the cursor, whatever undo, redo and commits ran while restores were
\* pending.
C27_CursorAgrees ==
    [][(restores # EmptyBag /\ restores' = EmptyBag) =>
          LET entry == history'.states[history'.currentIndex + 1]
          IN  /\ currentImage' = imageToCanvas(decode(entry.imageData))
              /\ adjustments' = entry.adjustments
              /\ currentFilter' = entry.filter
              /\ overlays' = entry.overlays]_vars

-----------------------------------------------------------------------------
(* Properties of the editing session (SpecSession).                        *)

\* C28: when the image of a background removal's result loads and the
\* working image is no longer the one the removal was requested for, the
\* result does not become the working image and no history entry is pushed.
C28_StaleResultDropped ==
    [][\A r \in BagToSet(removals) :
          (/\ r.pc = "decode"
           /\ removals' = BagRemove(removals, r)
           /\ r.blob # currentImage)
          => (currentImage' = currentImage /\ history' = history)]_vars

\* C29: after undo, its restore, redo and its restore, run from a state in
\* which nothing was outstanding and with nothing in between, the cursor is
\* where it was before the undo and the working image, the adjustments, the
\* filter and the overlays are what they were before the undo.
C29_UndoRedoRoundTrip ==
    (trip # null /\ trip[1].steps = 4) =>
        /\ history.currentIndex = trip[1].cursor
        /\ currentImage = trip[1].currentImage
        /\ adjustments = trip[1].adjustments
        /\ currentFilter = trip[1].currentFilter
        /\ overlays = trip[1].overlays

\* C30: when every external call settles, a busy BackgroundRemover becomes
\* idle again; it is busy exactly while a removal it accepted is waiting for
\* the external call; and a removal is turned down as busy only while such
\* a call is in flight, so one requested after the call has settled is
\* accepted.
C30_BusyReleased ==
    /\ isProcessing ~> ~isProcessing
    /\ [](isProcessing <=> \E r \in BagToSet(removals) : r.pc = "external")
    /\ [][(lastOp' = "remove.busy" /\ removals' # removals) =>
              \E r \in BagToSet(removals) : r.pc = "external"]_vars

\* a removal was accepted after the call of the one before it had resolved:
\* the earlier result is still decoding and the remover is busy again
C30_Witness ==
    /\ isProcessing
    /\ \E r, q \in BagToSet(removals) : r.pc = "external" /\ q.pc = "decode"

-----------------------------------------------------------------------------
(* Properties of the render pipeline (SpecRender).                         *)

\* the renders of the display canvas or of the export canvas
Renders == {"slider", "filter", "displayImage", "exportImage"}

\* the raster stages run one after the other on the pixels of image
StagesInOrder(image, adj, filter) ==
    LET adjusted  == Array(adjustFrom(0, image.data, adj))
        sharpened == IF adj.sharpness > 0
                     THEN applySharpness([image EXCEPT !.data = adjusted], adj.sharpness)
                     ELSE adjusted
    IN  [image EXCEPT !.data = IF filter # "none" THEN applyFilter(sharpened, filter)
                                                  ELSE sharpened]

\* C14: every render, on the display canvas or for the export, runs the
\* adjustments, then the sharpening only if sharpness > 0, then the colour
\* filter only if the filter is not 'none', then the overlays: the stages ran
\* in that order, and the canvas holds the overlays drawn over the filter of
\* the sharpening of the adjusted source.
C14_StageOrder ==
    lastOp \in Renders =>
        /\ arg[1].stages = <<"adjustments">>
                           \o (IF adjustments.sharpness > 0 THEN <<"sharpness">> ELSE <<>>)
                           \o (IF currentFilter # "none" THEN <<"filter">> ELSE <<>>)
                           \o <<"overlays">>
        /\ arg[1].canvas =
              drawOverlays(drawImage(blank(RenderSource.width, RenderSource.height),
                                     StagesInOrder(RenderSource, adjustments, currentFilter)),
                           overlays)

\* an export with the sharpening, the colour filter and an overlay all run
C14_Witness ==
    /\ lastOp = "exportImage"
    /\ adjustments.sharpness > 0
    /\ currentFilter = "sepia"
    /\ overlays # <<>>
    /\ arg[1].stages = <<"adjustments", "sharpness", "filter", "overlays">>

\* C15: a render leaves the working image as it was, and after any sequence of
\* renders the canvas rendered for the edit state is the one a first render of
\* that edit state from the working image gives; the display canvas holds the
\* last render drawn on it.
C15_FreshRender ==
    /\ currentImage = RenderSource
    /\ lastOp \in Renders =>
          arg[1].canvas = displayImage(RenderSource, adjustments, currentFilter,
                                       overlays).canvas
    /\ lastOp \in Renders \ {"exportImage"} => result[1] = arg[1].canvas

\* the sliders back at rest after a render that changed the display: the
\* display is the first one again
C15_Witness ==
    /\ lastOp = "slider"
    /\ adjustments = zeroAdjustments
    /\ currentFilter = "none"
    /\ prev # null
    /\ prev # result
    /\ currentImage = RenderSource

-----------------------------------------------------------------------------
(* Properties of the ImageEditor pipeline (SpecPipeline).                  *)

\* the calls of SpecPipeline
PipelineOps == {"applyAdjustments", "applySharpness", "applyFilter"}

\* C16: with the eight adjustments at zero, the filter 'none' and no overlay
\* the canvas returned has the dimensions and every R, G, B and A sample of
\* the source; the pixel loop returns every triple of samples as it was.
C16_Identity ==
    (lastOp = "applyAdjustments" /\ adjustments = zeroAdjustments /\ currentFilter = "none"
        /\ overlays = <<>>) =>
        /\ result[1] = currentImage
        /\ result[1].width = currentImage.width /\ result[1].height = currentImage.height
        /\ \A i \in DOMAIN currentImage.data : result[1].data[i] = currentImage.data[i]
        /\ \A v \in 0..255 :
              adjustPixel(v, 255 - v, (7 * v) % 256, adjustments)
                  = <<v, 255 - v, (7 * v) % 256>>

\* the coloured 4x3 source rendered with everything at rest
C16_Witness ==
    /\ lastOp = "applyAdjustments"
    /\ adjustments = zeroAdjustments
    /\ currentFilter = "none"
    /\ currentImage.width = 4
    /\ arg = Some(<<"adjustments">>)
    /\ result = Some(currentImage)

\* C17: every R, G and B sample of what the adjustment, sharpening and
\* colour-filter stages return lies in 0..255 (contrast within -254..254).
C17_Clamped ==
    lastOp \in PipelineOps =>
        \A i \in DOMAIN result[1].data :
            i % 4 # 3 => result[1].data[i] \in 0..255

\* the 'vibrant' filter computed a negative red for a pixel whose red is
\* above 0, and 0 is stored
C17_Witness ==
    /\ lastOp = "applyFilter"
    /\ currentFilter = "vibrant"
    /\ \E i \in DOMAIN currentImage.data :
          /\ i % 4 = 0
          /\ currentImage.data[i] > 0
          /\ 9 * currentImage.data[i]
               < currentImage.data[i] + currentImage.data[i + 1] + currentImage.data[i + 2]
          /\ result[1].data[i] = 0

\* the steps of the pixel loop, in the order of the claim
StepOrder == <<"exposure", "brightness", "contrast", "temperature",
               "highlights", "shadows", "saturation">>

\* one step on the unclamped channels p
StepOf(name, p, value) ==
    CASE name = "exposure"    -> exposureStep(p, value)
      [] name = "brightness"  -> brightnessStep(p, value)
      [] name = "contrast"    -> contrastStep(p, value)
      [] name = "temperature" -> temperatureStep(p, value)
      [] name = "highlights"  -> highlightsStep(p, value)
      [] name = "shadows"     -> shadowsStep(p, value)
      [] name = "saturation"  -> saturationStep(p, value)

\* the steps from the k-th on, each once and only if its parameter is not 0,
\* with no clamping in between
RECURSIVE StepsFrom(_, _, _)
StepsFrom(k, p, adj) ==
    IF k > Len(StepOrder) THEN p
    ELSE StepsFrom(k + 1,
                   IF adj[StepOrder[k]] # 0 THEN StepOf(StepOrder[k], p, adj[StepOrder[k]])
                                            ELSE p,
                   adj)

\* the three samples stored for a pixel: each channel clamped once, at the end
ClampedOnce(r, g, b, adj) ==
    storePixel(StepsFrom(1, channels(r, g, b), adj))

\* C18: the adjustment stage applies to each pixel the steps exposure,
\* brightness, contrast, temperature, highlights, shadows, saturation in that
\* order, each at most once and only when its parameter is not 0, on
\* unclamped values, and clamps each channel to 0..255 once, after the last.
C18_ClampOnce ==
    (lastOp = "applyAdjustments" /\ adjustments.sharpness <= 0 /\ currentFilter = "none") =>
        \A i \in DOMAIN currentImage.data :
            i % 4 = 0 =>
                <<result[1].data[i], result[1].data[i + 1], result[1].data[i + 2]>>
                    = ClampedOnce(currentImage.data[i], currentImage.data[i + 1],
                                  currentImage.data[i + 2], adjustments)

\* exposure 100 takes the red sample 200 to 400 and brightness -100 brings it
\* back to 145; clamped in between it would have been stored as 0
C18_Witness ==
    /\ lastOp = "applyAdjustments"
    /\ currentFilter = "none"
    /\ adjustments = [zeroAdjustments EXCEPT !.exposure = 100, !.brightness = -100]
    /\ \E i \in DOMAIN currentImage.data :
          i % 4 = 0 /\ currentImage.data[i] = 200 /\ result[1].data[i] = 145

\* the samples of the pixels of the first and last row and column
Border(canvas) ==
    { i \in DOMAIN canvas.data :
        LET x == (i \div 4) % canvas.width
            y == (i \div 4) \div canvas.width
        IN  x = 0 \/ y = 0 \/ x = canvas.width - 1 \/ y = canvas.height - 1 }

\* C19: sharpening with amount 0 leaves the buffer as it was; with any
\* amount the pixels of the first and last row and column keep the values
\* they had before the sharpening, so that a buffer less than 3 wide or less
\* than 3 high is returned unchanged; every neighbour read lies in the buffer.
C19_SharpenEdges ==
    /\ lastOp = "applySharpness" =>
          /\ adjustments.sharpness = 0 => result[1] = currentImage
          /\ \A i \in Border(currentImage) : result[1].data[i] = currentImage.data[i]
          /\ (currentImage.width < 3 \/ currentImage.height < 3) => result[1] = currentImage
          /\ \A x \in 1..(currentImage.width - 2), y \in 1..(currentImage.height - 2),
                kx \in -1..1, ky \in -1..1, c \in 0..2 :
                ((y + ky) * currentImage.width + (x + kx)) * 4 + c \in DOMAIN currentImage.data
    /\ (lastOp = "applyAdjustments" /\ currentFilter = "none") =>
          \A i \in Border(currentImage) :
              i % 4 = 0 =>
                  <<result[1].data[i], result[1].data[i + 1], result[1].data[i + 2]>>
                      = adjustPixel(currentImage.data[i], currentImage.data[i + 1],
                                    currentImage.data[i + 2], adjustments)

\* a sharpening that changed an interior pixel of the 4x3 source and left
\* its border alone
C19_Witness ==
    /\ lastOp = "applySharpness"
    /\ adjustments.sharpness > 0
    /\ currentImage.width = 4
    /\ \E i \in DOMAIN currentImage.data \ Border(currentImage) :
          result[1].data[i] # currentImage.data[i]
    /\ \A i \in Border(currentImage) : result[1].data[i] = currentImage.data[i]

\* C20: the alpha sample of every pixel of what the adjustment, sharpening
\* and colour-filter stages return is the alpha sample the source has there,
\* whatever the adjustments, the sharpening amount and the filter.
C20_AlphaUntouched ==
    lastOp \in PipelineOps =>
        /\ DOMAIN result[1].data = DOMAIN currentImage.data
        /\ \A i \in DOMAIN currentImage.data :
              i % 4 = 3 => result[1].data[i] = currentImage.data[i]

\* the three stages run on a source with a half-transparent pixel: its
\* colour changed and its alpha did not
C20_Witness ==
    /\ lastOp = "applyAdjustments"
    /\ adjustments.sharpness > 0
    /\ currentFilter = "noir"
    /\ arg = Some(<<"adjustments", "sharpness", "filter">>)
    /\ \E i \in DOMAIN currentImage.data :
          /\ i % 4 = 3
          /\ currentImage.data[i] = 128
          /\ result[1].data[i] = 128
          /\ result[1].data[i - 1] # currentImage.data[i - 1]

\* C24: the sepia filter takes a pure red pixel (255, 0, 0, 255) to
\* (100, 89, 69, 255), the samples stored for 255 * 0.393, 255 * 0.349 and
\* 255 * 0.272, called directly or through a render with the adjustments at
\* rest; for every pixel each channel is the sepia sum of the R, G and B the
\* pixel had before the call, capped at 255, and the alpha stays.
C24_SepiaRed ==
    (/\ currentFilter = "sepia"
     /\ \/ lastOp = "applyFilter"
        \/ lastOp = "applyAdjustments" /\ adjustments = zeroAdjustments) =>
        \A i \in DOMAIN currentImage.data :
            i % 4 = 0 =>
                LET r == currentImage.data[i]
                    g == currentImage.data[i + 1]
                    b == currentImage.data[i + 2]
                    out == <<result[1].data[i], result[1].data[i + 1],
                             result[1].data[i + 2], result[1].data[i + 3]>>
                IN  /\ <<r, g, b, currentImage.data[i + 3]>> = <<255, 0, 0, 255>>
                          => out = <<100, 89, 69, 255>>
                    /\ out[1] = ToUint8Clamp(393 * r + 769 * g + 189 * b, 1000)
                    /\ out[2] = ToUint8Clamp(349 * r + 686 * g + 168 * b, 1000)
                    /\ out[3] = ToUint8Clamp(272 * r + 534 * g + 131 * b, 1000)
                    /\ out[4] = currentImage.data[i + 3]

\* the 4 x 3 source, whose first pixel is pure red, rendered with the sepia
\* filter and the adjustments at rest
C24_Witness ==
    /\ lastOp = "applyAdjustments"
    /\ adjustments = zeroAdjustments
    /\ currentFilter = "sepia"
    /\ arg = Some(<<"adjustments", "filter">>)
    /\ <<currentImage.data[0], currentImage.data[1], currentImage.data[2],
         currentImage.data[3]>> = <<255, 0, 0, 255>>
    /\ <<result[1].data[0], result[1].data[1], result[1].data[2],
         result[1].data[3]>> = <<100, 89, 69, 255>>

\* C25: with the contrast slider alone moved, to 50 or to any value strictly
\* between -255 and 255, the 2 x 2 all-gray image (128, 128, 128, 255) is
\* rendered as it is: factor * (128 - 128) + 128 = 128 in every channel, the
\* alpha kept; and any channel at 128 of any source stays at 128.
C25_ContrastMidGray ==
    (/\ lastOp = "applyAdjustments"
     /\ currentFilter = "none"
     /\ adjustments \in ContrastChoices) =>
        /\ currentImage = GraySource =>
              /\ result[1] = GraySource
              /\ \A i \in DOMAIN result[1].data :
                    result[1].data[i] = IF i % 4 = 3 THEN 255 ELSE 128
        /\ \A i \in DOMAIN currentImage.data :
              (i % 4 # 3 /\ currentImage.data[i] = 128) => result[1].data[i] = 128

\* the all-gray image rendered with contrast 50
C25_Witness ==
    /\ lastOp = "applyAdjustments"
    /\ currentFilter = "none"
    /\ adjustments = [zeroAdjustments EXCEPT !.contrast = 50]
    /\ currentImage = GraySource
    /\ currentImage.width = 2 /\ currentImage.height = 2
    /\ arg = Some(<<"adjustments">>)
    /\ result = Some(GraySource)

\* C26: after applySharpness with amount a, every R, G and B sample of an
\* interior pixel is (1 + 4a) * centre - a * (up + down + left + right),
\* clamped to 0..255 and stored, where centre and the four neighbours are
\* the samples the buffer held before the call (the diagonal neighbours do
\* not count); it is the same whatever was rewritten earlier in the call.
C26_SharpenFromCopy ==
    lastOp = "applySharpness" =>
        \A x \in 1..(currentImage.width - 2), y \in 1..(currentImage.height - 2), c \in 0..2 :
            LET before(dx, dy) ==
                    currentImage.data[((y + dy) * currentImage.width + (x + dx)) * 4 + c]
                a == adjustments.sharpness
            IN  result[1].data[(y * currentImage.width + x) * 4 + c]
                    = ToUint8Clamp((100 + 4 * a) * before(0, 0)
                                      - a * (before(0, -1) + before(0, 1)
                                             + before(-1, 0) + before(1, 0)),
                                   100)

\* the two interior pixels of a 4 x 3 source lie side by side and the
\* sharpening changed both without saturating the second: the second was
\* computed after the first was rewritten
C26_Witness ==
    /\ lastOp = "applySharpness"
    /\ adjustments.sharpness > 0
    /\ currentImage.width = 4 /\ currentImage.height = 3
    /\ result[1].data[(1 * 4 + 1) * 4] # currentImage.data[(1 * 4 + 1) * 4]
    /\ result[1].data[(1 * 4 + 2) * 4] # currentImage.data[(1 * 4 + 2) * 4]
    /\ result[1].data[(1 * 4 + 2) * 4] \in 1..254

-----------------------------------------------------------------------------
(* Properties of the transforms (SpecTransform).                           *)

\* C21: a flip returns a canvas of the width and height of its input, and
\* two flips about the same axis in a row (horizontal twice, or vertical
\* twice) give back the canvas they started from, sample by sample.
C21_FlipInvolution ==
    /\ lastOp = "flip" =>
          /\ currentImage.width = prev[1].width
          /\ currentImage.height = prev[1].height
          /\ DOMAIN currentImage.data = DOMAIN prev[1].data
    /\ (Len(arg) = 2 /\ arg[1].op = "flip" /\ arg[2] = arg[1]) =>
          currentImage = originalImage

\* the 4 x 3 source flipped horizontally twice: the first flip changed it and
\* the second gave it back
C21_Witness ==
    /\ Len(arg) = 2
    /\ arg[1] = [op |-> "flip", direction |-> "horizontal"]
    /\ arg[2] = arg[1]
    /\ originalImage.width = 4
    /\ prev[1] # originalImage
    /\ prev[1].data[0] = originalImage.data[12]
    /\ currentImage = originalImage

\* C22: for a crop selection lying within the source, the canvas returned by
\* crop is Math.round(width) wide and Math.round(height) high, and its pixel
\* (i, j) is the pixel (Math.round(x) + i, Math.round(y) + j) of the source.
C22_CropRegion ==
    lastOp = "crop" =>
        LET sel == arg[Len(arg)].sel
            source == prev[1]
        IN  /\ currentImage.width = roundHalf(sel[3])
            /\ currentImage.height = roundHalf(sel[4])
            /\ \A i \in 0..(currentImage.width - 1), j \in 0..(currentImage.height - 1) :
                  /\ roundHalf(sel[1]) + i < source.width
                  /\ roundHalf(sel[2]) + j < source.height
                  /\ pixelAt(currentImage, i, j)
                         = pixelAt(source, roundHalf(sel[1]) + i, roundHalf(sel[2]) + j)

-----------------------------------------------------------------------------
(* Properties of the overlays (SpecOverlays).                              *)

\* the handlers that add an overlay
AddOps == {"addTextOverlay", "addShapeOverlay"}

\* what an overlay paints when it is drawn alone on a transparent canvas of
\* the size of the working image
Alone(overlay) ==
    drawOverlays(blank(RenderSource.width, RenderSource.height), <<overlay>>)

\* C23: on every render the overlays are painted in list order: wherever an
\* overlay paints an opaque pixel and no overlay later in the list paints,
\* the canvas shows that overlay's pixel, whatever the overlays before it
\* painted there.  Adding an overlay appends it to the list and leaves the
\* overlays before it as and where they were; nothing else changes the list.
C23_ZOrder ==
    /\ [](\A j \in 1..Len(overlays) :
            \A x \in 0..(RenderSource.width - 1), y \in 0..(RenderSource.height - 1) :
                (/\ lastOp \in Renders \cup AddOps
                 /\ pixelAt(Alone(overlays[j]), x, y)[4] = 255
                 /\ \A k \in (j + 1)..Len(overlays) :
                       pixelAt(Alone(overlays[k]), x, y)[4] = 0)
                    => pixelAt(arg[1].canvas, x, y) = pixelAt(Alone(overlays[j]), x, y))
    /\ [][ /\ lastOp' \in AddOps =>
                /\ Len(overlays') = Len(overlays) + 1
                /\ SubSeq(overlays', 1, Len(overlays)) = overlays
                /\ overlays'[Len(overlays')].type =
                       (IF lastOp' = "addTextOverlay" THEN "text" ELSE "shape")
           /\ overlays' # overlays => lastOp' \in AddOps
         ]_vars

\* a text added after a shape whose stroke covers the text's anchor: the
\* anchor showed the stroke before and shows the text now
C23_Witness ==
    /\ lastOp = "addTextOverlay"
    /\ Len(overlays) = 2
    /\ overlays[1].type = "shape"
    /\ overlays[2].type = "text"
    /\ pixelAt(prev[1], overlays[2].x, overlays[2].y) = rgba(overlays[1].strokeColor)
    /\ pixelAt(result[1], overlays[2].x, overlays[2].y) = rgba(overlays[2].color)

=============================================================================
